---- MODULE Spec2Model ----
(***************************************************************************)
(* A model of the 3D model viewer: the ModelLoader that turns an imported  *)
(* scene into a ModelMesh (triangles, bounding box, center, scale) and the *)
(* STLViewer that builds the vertex buffers, keeps the camera and runs the *)
(* render loop.                                                            *)
(*                                                                         *)
(* Numbers.  A float is modelled by the exact value it stands for: an      *)
(* extended rational <<n, d>> in lowest terms with d >= 0, where d = 0     *)
(* gives the IEEE specials (<<1,0>> = +inf, <<-1,0>> = -inf, <<0,0>> =     *)
(* NaN).  Rounding and the finite range of a float are not modelled.  The  *)
(* camera vectors hold multiples of 1/sqrt(3) and are kept as surds        *)
(* <<a, b>> = a + b*sqrt(3), a and b rationals.                            *)
(***************************************************************************)
EXTENDS Integers, Sequences, FiniteSets, TLC

\* ------------------------------------------------------------------ bounds
MaxLoads == 2       \* loadFile calls made on one ModelLoader
MaxMeshes == 2      \* sub-meshes (aiMesh) of one imported scene
MaxFaces == 2       \* faces of one sub-mesh
MaxTriangles == 3   \* triangles a ModelMesh is let grow to

\* --------------------------------------------------------- extended rationals
Abs(n) == IF n < 0 THEN -n ELSE n
Sgn(n) == IF n < 0 THEN -1 ELSE IF n = 0 THEN 0 ELSE 1

RECURSIVE GCD(_, _)
GCD(a, b) == IF b = 0 THEN a ELSE GCD(b, a % b)

\* n/d in lowest terms; x/0 is +inf, -inf or NaN as in IEEE arithmetic
Rat(n, d) ==
    IF d = 0 THEN <<Sgn(n), 0>>
    ELSE LET g == GCD(Abs(n), Abs(d))
             s == Sgn(d)
         IN  <<s * (n \div g), s * (d \div g)>>

R(n) == <<n, 1>>
NaN == <<0, 0>>
Inf == <<1, 0>>
IsFinite(p) == p[2] # 0

RNeg(p) == <<-p[1], p[2]>>

RMul(p, q) ==
    IF p[2] = 0 \/ q[2] = 0 THEN <<Sgn(p[1]) * Sgn(q[1]), 0>>
    ELSE LET g1 == GCD(Abs(p[1]), q[2])
             g2 == GCD(Abs(q[1]), p[2])
         IN  <<(p[1] \div g1) * (q[1] \div g2), (p[2] \div g2) * (q[2] \div g1)>>

RAdd(p, q) ==
    IF p[2] = 0 /\ q[2] = 0 THEN (IF p = q THEN p ELSE NaN)
    ELSE IF p[2] = 0 THEN p
    ELSE IF q[2] = 0 THEN q
    ELSE LET g == GCD(p[2], q[2])
             l == (p[2] \div g) * q[2]
         IN  Rat(p[1] * (l \div p[2]) + q[1] * (l \div q[2]), l)

RSub(p, q) == RAdd(p, RNeg(q))
RInv(p) == Rat(p[2], p[1])
RDiv(p, q) == RMul(p, RInv(q))

\* p < q as floats compare: false as soon as one side is NaN
RLess(p, q) ==
    IF p = NaN \/ q = NaN THEN FALSE
    ELSE IF p[2] = 0 \/ q[2] = 0
         THEN (IF p[2] = 0 /\ q[2] = 0 THEN p[1] < q[1]
               ELSE IF p[2] = 0 THEN p[1] < 0
               ELSE q[1] > 0)
    ELSE LET g == GCD(p[2], q[2])
             l == (p[2] \div g) * q[2]
         IN  p[1] * (l \div p[2]) < q[1] * (l \div q[2])

\* std::min / std::max: the first argument unless the comparison says otherwise
StdMin(a, b) == IF RLess(b, a) THEN b ELSE a
StdMax(a, b) == IF RLess(a, b) THEN b ELSE a

\* ------------------------------------------------------------ glm::vec3
Axes == 1..3
VAdd(u, v) == [a \in Axes |-> RAdd(u[a], v[a])]
VSub(u, v) == [a \in Axes |-> RSub(u[a], v[a])]
VScale(u, k) == [a \in Axes |-> RMul(u[a], k)]
VNeg(u) == [a \in Axes |-> RNeg(u[a])]
Dot(u, v) == RAdd(RAdd(RMul(u[1], v[1]), RMul(u[2], v[2])), RMul(u[3], v[3]))
Cross(u, v) ==
    <<RSub(RMul(u[2], v[3]), RMul(v[2], u[3])),
      RSub(RMul(u[3], v[1]), RMul(v[3], u[1])),
      RSub(RMul(u[1], v[2]), RMul(v[1], u[2]))>>

\* ------------------------------------------------------------ surds
\* a + b*sqrt(3); Surd(r) embeds a rational
Surd(r) == <<r, R(0)>>
SAdd(s, t) == <<RAdd(s[1], t[1]), RAdd(s[2], t[2])>>
SMulRat(s, r) == <<RMul(s[1], r), RMul(s[2], r)>>
SVec(v) == [a \in Axes |-> Surd(v[a])]
SVAdd(u, v) == [a \in Axes |-> SAdd(u[a], v[a])]
SVScale(u, r) == [a \in Axes |-> SMulRat(u[a], r)]

IsSquare(n) == \E r \in 0..n : r * r = n
Sqrt(n) == CHOOSE r \in 0..n : r * r = n

\* glm::inversesqrt of a rational q >= 0 whose root lies in Q(sqrt 3):
\* 1/sqrt(n/d) = sqrt(n*d)/n
InverseSqrt(q) ==
    IF q[1] = 0 THEN Surd(Rat(q[2], 0))
    ELSE LET nd == q[1] * q[2]
         IN  IF IsSquare(nd) THEN Surd(Rat(Sqrt(nd), q[1]))
             ELSE <<R(0), Rat(Sqrt(nd \div 3), q[1])>>

\* glm::normalize(v) = v * inversesqrt(dot(v, v))
Normalize(v) ==
    LET k == InverseSqrt(Dot(v, v))
    IN  [a \in Axes |-> <<RMul(v[a], k[1]), RMul(v[a], k[2])>>]

\* ------------------------------------------------ constants of model_loader.cpp
TRIANGLE_VERTICES == 3
CENTER_CALCULATION_FACTOR == Rat(1, 2)
DEFAULT_SCALE == R(1)
EPSILON == Rat(1, 1000000)

\* --------------------------------------------------------- imported scenes
\* What Assimp hands back for a file.  A sub-mesh (aiMesh) is a vertex array,
\* an optional array of per-vertex normals and a list of faces; a face is
\* its list of 0-based vertex indices.
P(x, y, z) == <<x, y, z>>
Half == Rat(1, 2)
Tiny == Rat(1, 2000000)     \* half of EPSILON

VertexArrays ==
    { \* spans exactly [0,1]^3
      [mVertices |-> <<P(R(1), R(0), R(0)), P(R(0), R(1), R(0)), P(R(0), R(0), R(1))>>,
       mNormals  |-> <<P(R(1), R(0), R(0)), P(R(0), R(1), R(0)), P(R(0), R(0), R(1))>>],
      \* away from the origin, extent 2 x 1 x 0, no normals in the file
      [mVertices |-> <<P(R(1), R(1), R(-1)), P(R(3), R(1), R(-1)), P(R(1), R(2), R(-1))>>,
       mNormals  |-> <<>>],
      \* largest extent below EPSILON
      [mVertices |-> <<P(R(0), R(0), R(0)), P(Tiny, R(0), R(0)), P(R(0), Tiny, R(0))>>,
       mNormals  |-> <<P(R(0), R(0), R(1)), P(R(0), R(0), R(1)), P(R(0), R(0), R(-1))>>],
      \* a single point, no normals in the file
      [mVertices |-> <<P(R(1), R(1), R(1)), P(R(1), R(1), R(1)), P(R(1), R(1), R(1))>>,
       mNormals  |-> <<>>],
      \* largest extent exactly EPSILON
      [mVertices |-> <<P(R(0), R(0), R(0)), P(EPSILON, R(0), R(0)), P(R(0), EPSILON, R(0))>>,
       mNormals  |-> <<P(R(0), R(1), R(0)), P(R(0), R(1), R(0)), P(R(0), R(1), R(0))>>],
      \* no vertex positions at all
      [mVertices |-> <<>>, mNormals |-> <<>>] }

\* a triangle, a triangle with an index past the vertex array, a line
FaceChoices == { <<0, 1, 2>>, <<0, 1, 3>>, <<0, 1>> }

FaceLists == UNION { [1..k -> FaceChoices] : k \in 0..MaxFaces }

AiMeshes ==
    { [mVertices |-> va.mVertices, mNormals |-> va.mNormals, mFaces |-> fs] :
        va \in VertexArrays, fs \in FaceLists }

HasFaces(aiMesh) == Len(aiMesh.mFaces) > 0
HasPositions(aiMesh) == Len(aiMesh.mVertices) > 0
HasNormals(aiMesh) == Len(aiMesh.mNormals) > 0
mNumVertices(aiMesh) == Len(aiMesh.mVertices)

\* importer.GetErrorString() after a failed ReadFile
BackendErrors == { "Unable to open file", "" }

\* Values an uninitialised float of a default-constructed object may hold
Garbage == { R(0), R(-7) }

\* ------------------------------------------------------------ state
VARIABLES
    mesh,          \* the caller's ModelMesh
    errorMessage,  \* ModelLoader::errorMessage
    lpc,           \* where loadFile stands: "idle" or "processScene"
    numMeshes,     \* scene->mNumMeshes of the scene being processed
    meshIdx,       \* sub-meshes of it processed so far
    ret,           \* what the last loadFile returned: "none", "true" or "false"
    loads,         \* loadFile calls made
    call,          \* bookkeeping of the current call (not program state)
    passes         \* normalisation passes made by the Normalize harness

loaderVars == <<mesh, errorMessage, lpc, numMeshes, meshIdx, ret, loads, call, passes>>

\* ------------------------------------------------------------ ModelLoader
setError(message, context) ==
    IF context # "" THEN message \o ": " \o context ELSE message

\* createTriangle: the three vertices, then the normal
createTriangle(face, aiMesh) ==
    LET bad == { j \in 1..TRIANGLE_VERTICES : face[j] >= mNumVertices(aiMesh) }
    IN  IF bad # {}
        THEN LET j == CHOOSE k \in bad : \A l \in bad : k <= l
             IN  [ok |-> FALSE,
                  err |-> setError("Invalid vertex index in face data",
                                   "Index: " \o ToString(face[j]))]
        ELSE LET v == [j \in 1..TRIANGLE_VERTICES |-> aiMesh.mVertices[face[j] + 1]]
                 n == IF HasNormals(aiMesh)
                      THEN SVec(aiMesh.mNormals[face[1] + 1])
                      ELSE Normalize(Cross(VSub(v[2], v[1]), VSub(v[3], v[1])))
             IN  [ok |-> TRUE, triangle |-> [normal |-> n, vertices |-> v]]

\* the face loop of processMesh, from face i on
RECURSIVE processFaces(_, _, _)
\* the face loop leaving at the first face that is not a triangle
processFaces_StopsAtNonTriangle(aiMesh, triangles, i) ==
    IF i > Len(aiMesh.mFaces) THEN [ok |-> TRUE, triangles |-> triangles, err |-> ""]
    ELSE LET face == aiMesh.mFaces[i]
         IN  IF Len(face) = TRIANGLE_VERTICES
             THEN LET r == createTriangle(face, aiMesh)
                  IN  IF ~r.ok
                      THEN [ok |-> FALSE, triangles |-> triangles, err |-> r.err]
                      ELSE processFaces(aiMesh, Append(triangles, r.triangle), i + 1)
             ELSE [ok |-> TRUE, triangles |-> triangles, err |-> ""]

processFaces(aiMesh, triangles, i) ==
    IF i > Len(aiMesh.mFaces) THEN [ok |-> TRUE, triangles |-> triangles, err |-> ""]
    ELSE LET face == aiMesh.mFaces[i]
         IN  IF Len(face) = TRIANGLE_VERTICES
             THEN LET r == createTriangle(face, aiMesh)
                  IN  IF ~r.ok
                      THEN [ok |-> FALSE, triangles |-> triangles, err |-> r.err]
                      ELSE processFaces(aiMesh, Append(triangles, r.triangle), i + 1)
             ELSE processFaces(aiMesh, triangles, i + 1)

\* processMesh without the HasFaces test
processMesh_NoFaceTest(aiMesh, triangles) ==
    IF ~HasPositions(aiMesh)
    THEN [ok |-> FALSE, triangles |-> triangles,
          err |-> setError("Mesh does not contain vertex position data",
                           "Mesh index: " \o ToString(Len(triangles) \div 1000))]
    ELSE processFaces(aiMesh, triangles, 1)

processMesh(aiMesh, triangles) ==
    IF ~HasFaces(aiMesh)
    THEN [ok |-> FALSE, triangles |-> triangles,
          err |-> setError("Mesh does not contain face data",
                           "Mesh index: " \o ToString(Len(triangles) \div 1000))]
    ELSE IF ~HasPositions(aiMesh)
    THEN [ok |-> FALSE, triangles |-> triangles,
          err |-> setError("Mesh does not contain vertex position data",
                           "Mesh index: " \o ToString(Len(triangles) \div 1000))]
    ELSE processFaces(aiMesh, triangles, 1)

\* every vertex of every triangle, in the order the loops of calculateBounds visit them
AllVertices(triangles) ==
    [k \in 1..(TRIANGLE_VERTICES * Len(triangles)) |->
        triangles[((k - 1) \div TRIANGLE_VERTICES) + 1].vertices[((k - 1) % TRIANGLE_VERTICES) + 1]]

RECURSIVE expandBounds(_, _, _, _)
expandBounds(vs, k, lo, hi) ==
    IF k > Len(vs) THEN [min_bounds |-> lo, max_bounds |-> hi]
    ELSE expandBounds(vs, k + 1,
                      [a \in Axes |-> StdMin(lo[a], vs[k][a])],
                      [a \in Axes |-> StdMax(hi[a], vs[k][a])])

\* calculateBounds looking at the first vertex of each triangle only
calculateBounds_FirstVertexOnly(m) ==
    IF m.triangles = <<>> THEN m
    ELSE LET first == m.triangles[1].vertices[1]
             vs == [k \in 1..Len(m.triangles) |-> m.triangles[k].vertices[1]]
             b == expandBounds(vs, 1, first, first)
         IN  [m EXCEPT !.min_bounds = b.min_bounds, !.max_bounds = b.max_bounds]

\* calculateBounds starting from the origin instead of the first vertex
calculateBounds_FromOrigin(m) ==
    IF m.triangles = <<>> THEN m
    ELSE LET first == <<R(0), R(0), R(0)>>
             b == expandBounds(AllVertices(m.triangles), 1, first, first)
         IN  [m EXCEPT !.min_bounds = b.min_bounds, !.max_bounds = b.max_bounds]

calculateBounds(m) ==
    IF m.triangles = <<>> THEN m
    ELSE LET first == m.triangles[1].vertices[1]
             b == expandBounds(AllVertices(m.triangles), 1, first, first)
         IN  [m EXCEPT !.min_bounds = b.min_bounds, !.max_bounds = b.max_bounds]

\* calculateCenterAndScale dividing without the EPSILON test
calculateCenterAndScale_NoEpsilon(m) ==
    IF m.triangles = <<>> THEN m
    ELSE LET size == VSub(m.max_bounds, m.min_bounds)
             maxSize == StdMax(StdMax(size[1], size[2]), size[3])
         IN  [m EXCEPT
                !.center = VScale(VAdd(m.min_bounds, m.max_bounds), CENTER_CALCULATION_FACTOR),
                !.scale = RDiv(DEFAULT_SCALE, maxSize)]

\* calculateCenterAndScale rescaling the scale the mesh already holds
calculateCenterAndScale_Relative(m) ==
    IF m.triangles = <<>> THEN m
    ELSE LET size == VSub(m.max_bounds, m.min_bounds)
             maxSize == StdMax(StdMax(size[1], size[2]), size[3])
         IN  [m EXCEPT
                !.center = VScale(VAdd(m.min_bounds, m.max_bounds), CENTER_CALCULATION_FACTOR),
                !.scale = IF RLess(EPSILON, maxSize) THEN RDiv(m.scale, maxSize)
                          ELSE DEFAULT_SCALE]

calculateCenterAndScale(m) ==
    IF m.triangles = <<>> THEN m
    ELSE LET size == VSub(m.max_bounds, m.min_bounds)
             maxSize == StdMax(StdMax(size[1], size[2]), size[3])
         IN  [m EXCEPT
                !.center = VScale(VAdd(m.min_bounds, m.max_bounds), CENTER_CALCULATION_FACTOR),
                !.scale = IF RLess(EPSILON, maxSize) THEN RDiv(DEFAULT_SCALE, maxSize)
                          ELSE DEFAULT_SCALE]

validateProcessedMesh(m) == m.triangles # <<>>

\* ------------------------------------------------------------ loadFile, step by step
\* call.tri0: triangles in the caller's mesh at entry; call.parsed: ReadFile returned
\* a scene; call.faces: faces of the sub-meshes handed to processMesh; call.added:
\* triangles pushed onto the mesh by this call; call.steps: the steps of loadSTL and
\* loadFile entered so far, in the order of their statements
NoCall == [tri0 |-> 0, parsed |-> FALSE, faces |-> 0, added |-> 0, steps |-> <<>>]

\* loadFile without the errorMessage.clear() it starts with
LoadFileBegin_NoClear ==
    /\ lpc = "idle"
    /\ loads < MaxLoads
    /\ loads' = loads + 1
    /\ meshIdx' = 0
    /\ UNCHANGED <<mesh, passes>>
    /\ \/ \E e \in BackendErrors :            \* ReadFile returned no scene
            /\ errorMessage' = setError("Failed to load 3D model", e)
            /\ call' = [NoCall EXCEPT !.tri0 = Len(mesh.triangles),
                                      !.steps = <<"ReadFile">>]
            /\ ret' = "false"
            /\ UNCHANGED <<lpc, numMeshes>>
       \/ /\ errorMessage' = setError("No mesh data found in the file",
                                      "File might be empty or corrupted")
          /\ call' = [NoCall EXCEPT !.tri0 = Len(mesh.triangles), !.parsed = TRUE,
                                    !.steps = <<"ReadFile", "validateScene">>]
          /\ numMeshes' = 0                   \* a scene without meshes
          /\ ret' = "false"
          /\ UNCHANGED lpc
       \/ \E n \in 1..MaxMeshes :
            /\ UNCHANGED errorMessage
            /\ call' = [NoCall EXCEPT !.tri0 = Len(mesh.triangles), !.parsed = TRUE,
                                      !.steps = <<"ReadFile", "validateScene", "processScene">>]
            /\ numMeshes' = n
            /\ ret' = "none"
            /\ lpc' = "processScene"

\* loadFile up to processScene: clear, ReadFile, validateScene
LoadFileBegin ==
    /\ lpc = "idle"
    /\ loads < MaxLoads
    /\ loads' = loads + 1
    /\ meshIdx' = 0
    /\ UNCHANGED <<mesh, passes>>
    /\ \/ \E e \in BackendErrors :            \* ReadFile returned no scene
            /\ errorMessage' = setError("Failed to load 3D model", e)
            /\ call' = [NoCall EXCEPT !.tri0 = Len(mesh.triangles),
                                      !.steps = <<"ReadFile">>]
            /\ ret' = "false"
            /\ UNCHANGED <<lpc, numMeshes>>
       \/ /\ errorMessage' = setError("No mesh data found in the file",
                                      "File might be empty or corrupted")
          /\ call' = [NoCall EXCEPT !.tri0 = Len(mesh.triangles), !.parsed = TRUE,
                                    !.steps = <<"ReadFile", "validateScene">>]
          /\ numMeshes' = 0                   \* a scene without meshes
          /\ ret' = "false"
          /\ UNCHANGED lpc
       \/ \E n \in 1..MaxMeshes :
            /\ errorMessage' = ""
            /\ call' = [NoCall EXCEPT !.tri0 = Len(mesh.triangles), !.parsed = TRUE,
                                      !.steps = <<"ReadFile", "validateScene", "processScene">>]
            /\ numMeshes' = n
            /\ ret' = "none"
            /\ lpc' = "processScene"

NumTriangleFaces(aiMesh) ==
    Cardinality({ i \in 1..Len(aiMesh.mFaces) : Len(aiMesh.mFaces[i]) = TRIANGLE_VERTICES })

\* one round of processScene's std::all_of: processMesh on the next sub-mesh
ProcessMesh ==
    /\ lpc = "processScene"
    /\ meshIdx < numMeshes
    /\ \E aiMesh \in AiMeshes :
         /\ Len(mesh.triangles) + NumTriangleFaces(aiMesh) <= MaxTriangles
         /\ LET r == processMesh(aiMesh, mesh.triangles)
            IN  /\ mesh' = [mesh EXCEPT !.triangles = r.triangles]
                /\ call' = [call EXCEPT !.faces = @ + Len(aiMesh.mFaces),
                                        !.added = @ + (Len(r.triangles) - Len(mesh.triangles))]
                /\ IF r.ok
                   THEN /\ meshIdx' = meshIdx + 1
                        /\ UNCHANGED <<errorMessage, ret, lpc>>
                   ELSE /\ errorMessage' = r.err
                        /\ ret' = "false"
                        /\ lpc' = "idle"
                        /\ UNCHANGED meshIdx
    /\ UNCHANGED <<numMeshes, loads, passes>>

\* loadFile going on to calculateBounds and calculateCenterAndScale after
\* validateProcessedMesh has failed
LoadFileFinish_NormalizesAnyway ==
    /\ lpc = "processScene"
    /\ meshIdx = numMeshes
    /\ lpc' = "idle"
    /\ mesh' = calculateCenterAndScale(calculateBounds(mesh))
    /\ call' = [call EXCEPT !.steps = @ \o <<"validateProcessedMesh",
                                  "calculateBounds", "calculateCenterAndScale">>]
    /\ IF ~validateProcessedMesh(mesh)
       THEN /\ errorMessage' = setError("No triangle data could be extracted from the file",
                                        "Model might contain only points/lines or unsupported geometry")
            /\ ret' = "false"
       ELSE /\ ret' = "true"
            /\ UNCHANGED errorMessage
    /\ UNCHANGED <<numMeshes, meshIdx, loads, passes>>

\* after processScene: validateProcessedMesh, calculateBounds, calculateCenterAndScale
LoadFileFinish ==
    /\ lpc = "processScene"
    /\ meshIdx = numMeshes
    /\ lpc' = "idle"
    /\ IF ~validateProcessedMesh(mesh)
       THEN /\ errorMessage' = setError("No triangle data could be extracted from the file",
                                        "Model might contain only points/lines or unsupported geometry")
            /\ ret' = "false"
            /\ call' = [call EXCEPT !.steps = @ \o <<"validateProcessedMesh">>]
            /\ UNCHANGED mesh
       ELSE /\ mesh' = calculateCenterAndScale(calculateBounds(mesh))
            /\ ret' = "true"
            /\ call' = [call EXCEPT !.steps = @ \o <<"validateProcessedMesh",
                                          "calculateBounds", "calculateCenterAndScale">>]
            /\ UNCHANGED errorMessage
    /\ UNCHANGED <<numMeshes, meshIdx, loads, passes>>

\* ------------------------------------------------------------ constants of viewer.cpp
WINDOW_WIDTH == 800
WINDOW_HEIGHT == 600
FOV_DEGREES == 45
NEAR_PLANE == Rat(1, 10)
FAR_PLANE == 100
CAMERA_DISTANCE == 8
AXIS_LENGTH == 2
MODEL_DESIRED_SIZE == Rat(3, 2)
SCROLL_SENSITIVITY == Rat(3, 10)
MODEL_COLOR_R == Rat(4, 5)
MODEL_COLOR_G == Rat(4, 5)
MODEL_COLOR_B == Rat(4, 5)
AMBIENT_STRENGTH == Rat(1, 10)
SPECULAR_STRENGTH == Rat(1, 2)
SHININESS == 32
VERTEX_COMPONENTS == 9

MaxScrolls == 2     \* scroll events delivered in one run

\* yoffset of a scroll event (0: a purely horizontal scroll)
ScrollOffsets == { -1, 0, 50 }

\* ------------------------------------------------------------ glm::mat4
\* four columns of four floats, as glm stores them
Cols == 1..4
ColScale(c, k) == [i \in Cols |-> RMul(c[i], k)]
ColAdd(c, d) == [i \in Cols |-> RAdd(c[i], d[i])]
Identity == [c \in Cols |-> [i \in Cols |-> IF i = c THEN R(1) ELSE R(0)]]

\* glm::scale(m, v)
glmScale(m, v) ==
    <<ColScale(m[1], v[1]), ColScale(m[2], v[2]), ColScale(m[3], v[3]), m[4]>>

\* glm::translate(m, v)
glmTranslate(m, v) ==
    <<m[1], m[2], m[3],
      ColAdd(ColAdd(ColAdd(ColScale(m[1], v[1]), ColScale(m[2], v[2])),
                    ColScale(m[3], v[3])), m[4])>>

\* m * vec4(p, 1), the position a vertex shader gives the point p
MatApply(m, p) ==
    LET c == ColAdd(ColAdd(ColAdd(ColScale(m[1], p[1]), ColScale(m[2], p[2])),
                           ColScale(m[3], p[3])), m[4])
    IN  <<c[1], c[2], c[3]>>

\* glm::lookAt and glm::perspective are kept as their arguments
glmLookAt(eye, center, up) == [eye |-> eye, center |-> center, up |-> up]
glmPerspective(fovy, aspect, near, far) ==
    [fovy |-> fovy, aspect |-> aspect, near |-> near, far |-> far]

\* ------------------------------------------------------------ viewer state
VARIABLES
    vpc,          \* where main and the viewer stand
    shouldClose,  \* the window's close flag
    escape,       \* the state of the escape key as of the last poll
    cameraPos, cameraFront, cameraUp,
    lightPos, lightColor,
    model, view, projection,
    axesVAO, axesVBO, modelVAO, modelVBO,
    gl,           \* live GL objects: vao[h] the VBO a vertex array reads, vbo[h] its floats
    uniforms,     \* the uniform values of the shader program
    frame,        \* the steps of the current loop iteration made so far
    scrolls,      \* scroll events delivered
    scrollSum     \* sum of their yoffset since setupCamera

cameraVars == <<cameraPos, cameraFront, cameraUp, lightPos, lightColor>>
matrixVars == <<model, view, projection>>
bufferVars == <<axesVAO, axesVBO, modelVAO, modelVBO, gl>>
viewerVars == <<vpc, shouldClose, escape, cameraVars, matrixVars, bufferVars,
                uniforms, frame, scrolls, scrollSum>>

\* ------------------------------------------------------------ main, the GL context, the shader
VARIABLES
    cmdline,      \* the command line and the file its path names
    printed,      \* the messages written to stdout and stderr
    exitStatus,   \* how the process ended, "none" while it runs
    window,       \* the GLFW window: "none" or "open"
    glLoaded,     \* gladLoadGLLoader has succeeded
    glfw,         \* the GLFW calls that took effect and, once the viewer is destroyed,
                  \* the releases its destruction makes, in the order made
    drawCall,     \* the last glDrawArrays: its arguments, the vertex array bound and
                  \* the model uniform in effect
    shaderError,  \* Shader::errorMessage
    programID,    \* Shader::programID
    uniformLocationCache,  \* Shader::uniformLocationCache
    glsl,         \* live shader and program objects: programs[p] says whether p is
                  \* linked and from which sources
    setCall       \* bookkeeping of the set* calls made on a Shader (not program state)

mainVars == <<cmdline, printed, exitStatus>>
contextVars == <<window, glLoaded, glfw, drawCall>>
shaderVars == <<shaderError, programID, uniformLocationCache, glsl, setCall>>
processVars == <<mainVars, contextVars, shaderVars>>

VERTEX_SHADER_PATH == "shaders/vertex.glsl"
FRAGMENT_SHADER_PATH == "shaders/fragment.glsl"
STL_EXTENSION == ".stl"

\* the command lines: no argument, --help, an option that does not exist, two
\* positional arguments, or one path; the path names no file, an empty file, a
\* directory or a regular file with content, with or without the .stl extension
CommandLines ==
    { [args |-> a, file |-> "missing", ext |-> STL_EXTENSION] :
        a \in {"none", "help", "unknown option", "two paths"} }
    \cup
    { [args |-> "path", file |-> f, ext |-> e] :
        f \in {"missing", "empty", "directory", "regular"}, e \in {STL_EXTENSION, ".obj"} }

\* std::filesystem::file_size: implementation-defined on a directory
FileSizes(file) ==
    IF file = "empty" THEN {"zero"}
    ELSE IF file = "regular" THEN {"positive"}
    ELSE {"throws", "zero", "positive"}

\* parseCommandLine: whether it returns true, and what it prints
parseCommandLine(cmd) ==
    IF cmd.args \in {"unknown option", "two paths"}
    THEN [ok |-> FALSE, out |-> {"Error parsing command line", "Usage"}]
    ELSE IF cmd.args = "help"
    THEN [ok |-> FALSE, out |-> {"Usage"}]
    ELSE IF cmd.args = "none"
    THEN [ok |-> FALSE, out |-> {"Error: STL file path is required.", "Usage"}]
    ELSE [ok |-> TRUE, out |-> {}]

\* validateSTLFile taking a wrong extension for an error
validateSTLFile_ExtensionFatal(exists, size, ext) ==
    IF ~exists
    THEN [ok |-> FALSE, out |-> {"Error: STL file does not exist"}]
    ELSE IF size = "zero"
    THEN [ok |-> FALSE, out |-> {"Error: STL file is empty"}]
    ELSE IF ext # STL_EXTENSION
    THEN [ok |-> FALSE, out |-> {"Warning: File does not have .stl extension"}]
    ELSE [ok |-> TRUE, out |-> {}]

\* validateSTLFile when file_size does not throw
validateSTLFile(exists, size, ext) ==
    IF ~exists
    THEN [ok |-> FALSE, out |-> {"Error: STL file does not exist"}]
    ELSE IF size = "zero"
    THEN [ok |-> FALSE, out |-> {"Error: STL file is empty"}]
    ELSE IF ext # STL_EXTENSION
    THEN [ok |-> TRUE, out |-> {"Warning: File does not have .stl extension",
                                "Warning: Continuing anyway..."}]
    ELSE [ok |-> TRUE, out |-> {}]

\* ------------------------------------------------------------ Shader
\* what a shader file holds: nothing readable, no byte, a source that does not
\* compile, a source that compiles
ShaderFiles == {"missing", "empty", "invalid", "valid"}
InfoLogs == {"", "0:1(1): error: syntax error"}

\* Shader::loadShaderFile: the code read and errorMessage afterwards
loadShaderFile(file, filePath, err) ==
    IF file = "missing"
    THEN [code |-> "", errorMessage |-> "Failed to open shader file: " \o filePath]
    ELSE IF file = "empty"
    THEN [code |-> "", errorMessage |-> err]
    ELSE [code |-> file, errorMessage |-> err]

\* Shader::compileShader: the shader name (0 on failure) and errorMessage afterwards
compileShader(source, shaderTypeName, name, infoLog, err) ==
    IF source = "invalid"
    THEN [shader |-> 0,
          errorMessage |-> shaderTypeName \o " shader compilation failed: " \o infoLog]
    ELSE [shader |-> name, errorMessage |-> err]

\* the uniforms the viewer sets, in the order sendMatricesToShader sets them
UniformNames ==
    <<"model", "view", "projection", "lightPos", "viewPos", "lightColor",
      "ambientStrength", "specularStrength", "shininess">>

NameIndex(name) == CHOOSE k \in 1..Len(UniformNames) : UniformNames[k] = name

\* the location the linker gives a uniform: it depends on the sources linked
UniformLocation(sources, name) ==
    IF sources = <<"valid", "valid">> THEN NameIndex(name) - 1
    ELSE Len(UniformNames) - NameIndex(name)

NoGLSL == [shaders |-> {}, programs |-> <<>>]

\* a name glCreateShader or glCreateProgram may hand out: one not in use
FreshObject(used) == CHOOSE h \in 1..(Cardinality(used) + 1) : h \notin used

\* glDeleteProgram
glDeleteProgram(g, program) ==
    LET rest == DOMAIN g.programs \ {program}
    IN  [g EXCEPT !.programs = IF rest = {} THEN <<>>
                               ELSE [p \in rest |-> g.programs[p]]]

\* glGetUniformLocation: -1 unless the program exists and is linked
glGetUniformLocation(g, program, name) ==
    IF program \in DOMAIN g.programs /\ g.programs[program].linked
    THEN UniformLocation(g.programs[program].sources, name)
    ELSE -1

\* Shader::create with linkProgram inlined: the result, errorMessage, programID and
\* the shader and program objects alive afterwards
ShaderCreate(vertexFile, fragmentFile, linked, infoLog, id, g) ==
    LET vertexCode == loadShaderFile(vertexFile, VERTEX_SHADER_PATH, "")
        fragmentCode == loadShaderFile(fragmentFile, FRAGMENT_SHADER_PATH,
                                       vertexCode.errorMessage)
        vertexShader == compileShader(vertexCode.code, "Vertex", FreshObject(g.shaders),
                                      infoLog, fragmentCode.errorMessage)
        afterVertex == g.shaders \cup (IF vertexShader.shader = 0 THEN {}
                                       ELSE {vertexShader.shader})
        fragmentShader == compileShader(fragmentCode.code, "Fragment",
                                        FreshObject(afterVertex), infoLog,
                                        vertexShader.errorMessage)
        compiled == afterVertex \cup (IF fragmentShader.shader = 0 THEN {}
                                      ELSE {fragmentShader.shader})
        program == FreshObject(DOMAIN g.programs)
        sources == <<vertexCode.code, fragmentCode.code>>
    IN  IF vertexCode.code = "" \/ fragmentCode.code = ""
        THEN [ok |-> FALSE, errorMessage |-> fragmentCode.errorMessage, programID |-> id,
              glsl |-> g]
        ELSE IF vertexShader.shader = 0 \/ fragmentShader.shader = 0
        THEN [ok |-> FALSE, errorMessage |-> fragmentShader.errorMessage, programID |-> id,
              glsl |-> [g EXCEPT !.shaders = compiled]]
        ELSE IF ~linked
        THEN [ok |-> FALSE, errorMessage |-> "Shader program linking failed: " \o infoLog,
              programID |-> program,
              glsl |-> [shaders |-> compiled,
                        programs |-> (program :> [linked |-> FALSE, sources |-> sources])
                                     @@ g.programs]]
        ELSE [ok |-> TRUE, errorMessage |-> fragmentShader.errorMessage,
              programID |-> program,
              glsl |-> [shaders |-> g.shaders,
                        programs |-> (program :> [linked |-> TRUE, sources |-> sources])
                                     @@ g.programs]]

\* Shader::getUniformLocation: the location, the cache afterwards, and whether
\* glGetUniformLocation was called
getUniformLocation(cache, g, program, name) ==
    IF name \in DOMAIN cache
    THEN [location |-> cache[name], cache |-> cache, lookup |-> FALSE]
    ELSE LET location == glGetUniformLocation(g, program, name)
         IN  [location |-> location, cache |-> (name :> location) @@ cache,
              lookup |-> TRUE]

\* the cache after set* calls for names[i..]
RECURSIVE setAll(_, _, _, _, _)
setAll(cache, g, program, names, i) ==
    IF i > Len(names) THEN cache
    ELSE setAll(getUniformLocation(cache, g, program, names[i]).cache, g, program,
                names, i + 1)

\* Shader::cleanup
cleanup(program, g) ==
    [programID |-> 0, uniformLocationCache |-> <<>>,
     glsl |-> IF program # 0 THEN glDeleteProgram(g, program) ELSE g]

\* setCall.name, location: the uniform of the last set* call and the location it
\* handed to glUniform*; expected: what glGetUniformLocation gives for that name in
\* the program the Shader held at the call; lookups[n]: the glGetUniformLocation
\* calls made for n since the Shader last changed its program; ops: calls made
NoSet == [name |-> "", location |-> -1, expected |-> -1, lookups |-> <<>>, ops |-> 0]

\* ------------------------------------------------------------ buffers
TriangleVertexData(triangle, j) ==
    LET v == triangle.vertices[j]
    IN  <<Surd(v[1]), Surd(v[2]), Surd(v[3]),
          Surd(MODEL_COLOR_R), Surd(MODEL_COLOR_G), Surd(MODEL_COLOR_B),
          triangle.normal[1], triangle.normal[2], triangle.normal[3]>>

RECURSIVE convertTriangles(_, _, _)
convertTriangles(triangles, i, vertices) ==
    IF i > Len(triangles) THEN vertices
    ELSE convertTriangles(triangles, i + 1,
            vertices \o TriangleVertexData(triangles[i], 1)
                     \o TriangleVertexData(triangles[i], 2)
                     \o TriangleVertexData(triangles[i], 3))

\* convertSTLToVertices with the normal written before the colour
convertSTLToVertices_NormalFirst(m) ==
    LET vs == convertTriangles(m.triangles, 1, <<>>)
    IN  [k \in 1..Len(vs) |->
            LET o == (k - 1) % VERTEX_COMPONENTS
            IN  IF o \in 3..5 THEN vs[k + 3] ELSE IF o \in 6..8 THEN vs[k - 3] ELSE vs[k]]

convertSTLToVertices(m) == convertTriangles(m.triangles, 1, <<>>)

AxisVertex(p, c) ==
    <<Surd(R(p[1])), Surd(R(p[2])), Surd(R(p[3])),
      Surd(R(c[1])), Surd(R(c[2])), Surd(R(c[3])),
      Surd(R(0)), Surd(R(0)), Surd(R(1))>>

\* createAxesVertices with the colours of the Y and Z axes exchanged
createAxesVertices_SwappedColours ==
    AxisVertex(<<0, 0, 0>>, <<1, 0, 0>>) \o AxisVertex(<<AXIS_LENGTH, 0, 0>>, <<1, 0, 0>>) \o
    AxisVertex(<<0, 0, 0>>, <<0, 0, 1>>) \o AxisVertex(<<0, AXIS_LENGTH, 0>>, <<0, 0, 1>>) \o
    AxisVertex(<<0, 0, 0>>, <<0, 1, 0>>) \o AxisVertex(<<0, 0, AXIS_LENGTH>>, <<0, 1, 0>>)

createAxesVertices ==
    AxisVertex(<<0, 0, 0>>, <<1, 0, 0>>) \o AxisVertex(<<AXIS_LENGTH, 0, 0>>, <<1, 0, 0>>) \o
    AxisVertex(<<0, 0, 0>>, <<0, 1, 0>>) \o AxisVertex(<<0, AXIS_LENGTH, 0>>, <<0, 1, 0>>) \o
    AxisVertex(<<0, 0, 0>>, <<0, 0, 1>>) \o AxisVertex(<<0, 0, AXIS_LENGTH>>, <<0, 0, 1>>)

\* a name glGen* may hand out: one not in use
FreshName(used) == CHOOSE h \in 1..(Cardinality(used) + 1) : h \notin used

\* createOpenGLBuffers: a new VAO and a new VBO holding the vertices
createOpenGLBuffers(g, vertices) ==
    LET a == FreshName(DOMAIN g.vao)
        b == FreshName(DOMAIN g.vbo)
    IN  [VAO |-> a, VBO |-> b,
         gl |-> [vao |-> (a :> b) @@ g.vao, vbo |-> (b :> vertices) @@ g.vbo]]

\* ------------------------------------------------------------ camera and matrices
Zero3 == <<R(0), R(0), R(0)>>

\* scroll_callback with the camera held on the near side of the origin
scroll_callback_Clamped(pos, front, yoffset) ==
    LET moved == SVAdd(pos, SVScale(SVScale(front, R(yoffset)), SCROLL_SENSITIVITY))
    IN  IF RLess(moved[1][2], RNeg(R(4))) THEN pos ELSE moved

\* scroll_callback moving by one step when the vertical offset is zero
scroll_callback_MinimumStep(pos, front, yoffset) ==
    SVAdd(pos, SVScale(SVScale(front, R(IF yoffset = 0 THEN 1 ELSE yoffset)),
                       SCROLL_SENSITIVITY))

\* the body of scroll_callback: the new cameraPos
scroll_callback(pos, front, yoffset) ==
    SVAdd(pos, SVScale(SVScale(front, R(yoffset)), SCROLL_SENSITIVITY))

RECURSIVE deliverScrolls(_, _, _, _)
deliverScrolls(ys, i, pos, front) ==
    IF i > Len(ys) THEN pos
    ELSE deliverScrolls(ys, i + 1, scroll_callback(pos, front, ys[i]), front)

RECURSIVE SumSeq(_, _)
SumSeq(ys, i) == IF i > Len(ys) THEN 0 ELSE ys[i] + SumSeq(ys, i + 1)

updateModelMatrix(m) ==
    LET objectSize == VSub(m.max_bounds, m.min_bounds)
        maxDimension == StdMax(StdMax(objectSize[1], objectSize[2]), objectSize[3])
        desiredSize == MODEL_DESIRED_SIZE
        scale == RDiv(desiredSize, maxDimension)
        scaled == glmScale(Identity, <<scale, scale, scale>>)
    IN  glmTranslate(scaled, VScale(VNeg(m.center), scale))

updateViewMatrix(pos, front, up) == glmLookAt(pos, SVAdd(pos, front), up)

updateProjectionMatrix ==
    glmPerspective(FOV_DEGREES, Rat(WINDOW_WIDTH, WINDOW_HEIGHT), NEAR_PLANE, R(FAR_PLANE))

\* sendMatricesToShader leaving out the view matrix and the view position
sendMatricesToShader_NoView(u, mo, vi, pr, lp, vp, lc) ==
    [u EXCEPT !.model = mo, !.projection = pr,
              !.lightPos = lp, !.lightColor = lc,
              !.ambientStrength = AMBIENT_STRENGTH,
              !.specularStrength = SPECULAR_STRENGTH,
              !.shininess = R(SHININESS)]

sendMatricesToShader(u, mo, vi, pr, lp, vp, lc) ==
    [u EXCEPT !.model = mo, !.view = vi, !.projection = pr,
              !.lightPos = lp, !.viewPos = vp, !.lightColor = lc,
              !.ambientStrength = AMBIENT_STRENGTH,
              !.specularStrength = SPECULAR_STRENGTH,
              !.shininess = R(SHININESS)]

\* ------------------------------------------------------------ draws and teardown
AXES_COUNT == 3
AXIS_VERTICES == 2

NoDraw == [mode |-> "none", vao |-> 0, first |-> 0, count |-> 0,
           model |-> [c \in Cols |-> [i \in Cols |-> R(0)]]]

\* the count argument of the glDrawArrays of renderAxes
axesDrawCount == AXES_COUNT * AXIS_VERTICES

\* renderModel asking for one vertex per float of the buffer
modelDrawCount_Floats(m) == Len(m.triangles) * TRIANGLE_VERTICES * VERTEX_COMPONENTS

\* the count argument of the glDrawArrays of renderModel
modelDrawCount(m) == Len(m.triangles) * TRIANGLE_VERTICES

POSITION_COMPONENTS == 3
COLOR_COMPONENTS == 3
NORMAL_COMPONENTS == 3

\* setupVertexAttributes: stride, offset and size of each attribute, in floats
setupVertexAttributes ==
    [stride |-> VERTEX_COMPONENTS,
     attributes |-> <<[offset |-> 0, size |-> POSITION_COMPONENTS],
                      [offset |-> POSITION_COMPONENTS, size |-> COLOR_COMPONENTS],
                      [offset |-> POSITION_COMPONENTS + COLOR_COMPONENTS,
                       size |-> NORMAL_COMPONENTS]>>]

\* the floats of the bound buffer that glDrawArrays(mode, first, count) reads:
\* for each vertex and attribute, size floats from vertex * stride + offset
FloatsRead(first, count) ==
    LET a == setupVertexAttributes
    IN  UNION { { v * a.stride + a.attributes[k].offset + i :
                    i \in 1..a.attributes[k].size } :
                v \in first..(first + count - 1), k \in 1..Len(a.attributes) }

\* ~STLViewer: the body, then the members in reverse order of declaration, of which
\* shader (~Shader, cleanup) and window (the deleter glfwDestroyWindow) release something
STLViewerDestructor(aVAO, aVBO, mVAO, mVBO, program, win) ==
    (IF aVAO # 0 THEN <<"glDeleteVertexArrays axes">> ELSE <<>>) \o
    (IF aVBO # 0 THEN <<"glDeleteBuffers axes">> ELSE <<>>) \o
    (IF mVAO # 0 THEN <<"glDeleteVertexArrays model">> ELSE <<>>) \o
    (IF mVBO # 0 THEN <<"glDeleteBuffers model">> ELSE <<>>) \o
    <<"glfwTerminate">> \o
    (IF program # 0 THEN <<"glDeleteProgram">> ELSE <<>>) \o
    (IF win = "open" THEN <<"glfwDestroyWindow">> ELSE <<>>)

\* initializeGLFW: the GLFW calls that took effect for an outcome of init()
initializeGLFW(r) ==
    IF r = "glfwInit fails" THEN <<>>
    ELSE IF r = "no window" THEN <<"glfwInit", "glfwTerminate">>
    ELSE <<"glfwInit", "glfwCreateWindow">>

\* ------------------------------------------------------------ main and the viewer
\* the steps of one iteration of the loop of run(), in the order of the code
FullFrame ==
    <<"processInput", "clear", "useShader", "updateMatrices",
      "renderAxes", "renderModel", "swapBuffers", "pollEvents">>

\* main: parseCommandLine; on false main returns EXIT_FAILURE
ParseCommandLine ==
    /\ vpc = "main"
    /\ LET r == parseCommandLine(cmdline)
       IN  /\ printed' = printed \cup r.out
           /\ vpc' = IF r.ok THEN "validate" ELSE "failed"
           /\ exitStatus' = IF r.ok THEN exitStatus ELSE "EXIT_FAILURE"
    /\ UNCHANGED <<cmdline, contextVars, shaderVars>>
    /\ UNCHANGED <<shouldClose, escape, cameraVars, matrixVars, bufferVars,
                   uniforms, frame, scrolls, scrollSum>>
    /\ UNCHANGED loaderVars

\* main: validateSTLFile; on false main returns EXIT_FAILURE; the exception of
\* file_size is caught nowhere and ends the process in std::terminate
ValidateSTLFile ==
    /\ vpc = "validate"
    /\ \/ /\ cmdline.file # "missing"
          /\ "throws" \in FileSizes(cmdline.file)
          /\ vpc' = "failed"
          /\ exitStatus' = "terminate"
          /\ UNCHANGED printed
       \/ \E size \in FileSizes(cmdline.file) \ {"throws"} :
             LET r == validateSTLFile(cmdline.file # "missing", size, cmdline.ext)
             IN  /\ vpc' = IF r.ok THEN "start" ELSE "failed"
                 /\ exitStatus' = IF r.ok THEN exitStatus ELSE "EXIT_FAILURE"
                 /\ printed' = printed \cup r.out \cup
                        (IF r.ok THEN {} ELSE {"Error: Failed to validate STL file"})
    /\ UNCHANGED <<cmdline, contextVars, shaderVars>>
    /\ UNCHANGED <<shouldClose, escape, cameraVars, matrixVars, bufferVars,
                   uniforms, frame, scrolls, scrollSum>>
    /\ UNCHANGED loaderVars

\* how far init() gets
InitOutcomes == {"glfwInit fails", "no window", "glad fails", "ok"}

\* viewer.init() with initializeViewer going on to loadSTL whatever init() returned
ViewerInit_IgnoresFailure ==
    /\ vpc = "start"
    /\ \E r \in InitOutcomes :
          /\ window' = IF r \in {"glad fails", "ok"} THEN "open" ELSE "none"
          /\ glLoaded' = (r = "ok")
          /\ glfw' = glfw \o initializeGLFW(r)
          /\ vpc' = "inited"
          /\ UNCHANGED mainVars
    /\ UNCHANGED drawCall
    /\ UNCHANGED shaderVars
    /\ UNCHANGED <<shouldClose, escape, cameraVars, matrixVars, bufferVars,
                   uniforms, frame, scrolls, scrollSum>>
    /\ UNCHANGED loaderVars

\* viewer.init(): GLFW, the window, GLAD, the callbacks; on false initializeViewer
\* prints and main returns EXIT_FAILURE
ViewerInit ==
    /\ vpc = "start"
    /\ \E r \in InitOutcomes :
          /\ window' = IF r \in {"glad fails", "ok"} THEN "open" ELSE "none"
          /\ glLoaded' = (r = "ok")
          /\ IF r = "ok"
             THEN /\ vpc' = "inited"
                  /\ glfw' = glfw \o initializeGLFW(r)
                  /\ UNCHANGED mainVars
             ELSE /\ vpc' = "failed"
                  /\ glfw' = glfw \o initializeGLFW(r) \o
                        STLViewerDestructor(axesVAO, axesVBO, modelVAO, modelVBO,
                                            programID, window')
                  /\ printed' = printed \cup {"Error: Failed to initialize STL Viewer"}
                  /\ exitStatus' = "EXIT_FAILURE"
                  /\ UNCHANGED cmdline
    /\ UNCHANGED drawCall
    /\ UNCHANGED shaderVars
    /\ UNCHANGED <<shouldClose, escape, cameraVars, matrixVars, bufferVars,
                   uniforms, frame, scrolls, scrollSum>>
    /\ UNCHANGED loaderVars

\* loadSTL: a fresh ModelLoader and its loadFile on the viewer's mesh
LoadSTLBegin ==
    /\ vpc = "inited"
    /\ vpc' = "loadSTL"
    /\ LoadFileBegin
    /\ UNCHANGED <<shouldClose, escape, cameraVars, matrixVars, bufferVars,
                   uniforms, frame, scrolls, scrollSum>>
    /\ UNCHANGED processVars

LoadSTLProcessMesh ==
    /\ vpc = "loadSTL"
    /\ ProcessMesh
    /\ UNCHANGED viewerVars
    /\ UNCHANGED processVars

LoadSTLFinishLoad ==
    /\ vpc = "loadSTL"
    /\ LoadFileFinish
    /\ UNCHANGED viewerVars
    /\ UNCHANGED processVars

\* loadSTL once loadFile has returned: setupShaders, setupAxesBuffers,
\* setupModelBuffers, setupCamera; on false initializeViewer prints and main
\* returns EXIT_FAILURE
LoadSTLSetup ==
    /\ vpc = "loadSTL"
    /\ lpc = "idle"
    /\ UNCHANGED <<mesh, errorMessage, lpc, numMeshes, meshIdx, ret, loads, passes>>
    /\ UNCHANGED <<shouldClose, escape, matrixVars, uniforms, frame, scrolls>>
    /\ UNCHANGED <<cmdline, window, glLoaded, drawCall>>
    /\ UNCHANGED <<uniformLocationCache, setCall>>
    /\ \/ /\ ret = "false"
          /\ UNCHANGED call
          /\ glfw' = glfw \o STLViewerDestructor(axesVAO, axesVBO, modelVAO, modelVBO,
                                                 programID, window)
          /\ vpc' = "failed"
          /\ printed' = printed \cup {"Failed to load 3D model file: " \o errorMessage,
                                      "Error: Failed to load STL file"}
          /\ exitStatus' = "EXIT_FAILURE"
          /\ UNCHANGED <<cameraVars, bufferVars, scrollSum, shaderError, programID, glsl>>
       \/ /\ ret = "true"
          /\ \E vertexFile \in ShaderFiles, fragmentFile \in ShaderFiles,
                linked \in BOOLEAN, infoLog \in InfoLogs :
                LET r == ShaderCreate(vertexFile, fragmentFile, linked, infoLog,
                                      programID, glsl)
                IN  /\ shaderError' = r.errorMessage
                    /\ programID' = r.programID
                    /\ glsl' = r.glsl
                    /\ IF ~r.ok
                       THEN /\ call' = [call EXCEPT !.steps = @ \o <<"setupShaders">>]
                            /\ glfw' = glfw \o
                                  STLViewerDestructor(axesVAO, axesVBO, modelVAO, modelVBO,
                                                      programID', window)
                            /\ vpc' = "failed"
                            /\ printed' = printed \cup
                                  {"Failed to create shader: " \o r.errorMessage,
                                   "Error: Failed to load STL file"}
                            /\ exitStatus' = "EXIT_FAILURE"
                            /\ UNCHANGED <<cameraVars, bufferVars, scrollSum>>
                       ELSE /\ LET axes == createOpenGLBuffers(gl, createAxesVertices)
                                   mdl == createOpenGLBuffers(axes.gl, convertSTLToVertices(mesh))
                               IN  /\ axesVAO' = axes.VAO
                                   /\ axesVBO' = axes.VBO
                                   /\ modelVAO' = mdl.VAO
                                   /\ modelVBO' = mdl.VBO
                                   /\ gl' = mdl.gl
                            /\ cameraPos' = SVec(<<R(CAMERA_DISTANCE), R(CAMERA_DISTANCE),
                                                   R(CAMERA_DISTANCE)>>)
                            /\ cameraFront' = Normalize(VSub(Zero3, <<R(CAMERA_DISTANCE),
                                                   R(CAMERA_DISTANCE), R(CAMERA_DISTANCE)>>))
                            /\ cameraUp' = <<R(0), R(1), R(0)>>
                            /\ lightPos' = <<R(2), R(2), R(2)>>
                            /\ lightColor' = <<R(1), R(1), R(1)>>
                            /\ scrollSum' = 0
                            /\ call' = [call EXCEPT !.steps = @ \o
                                           <<"setupShaders", "setupAxesBuffers",
                                             "setupModelBuffers", "setupCamera">>]
                            /\ vpc' = "run"
                            /\ UNCHANGED <<printed, exitStatus, glfw>>

\* a caller's further loadSTL on a viewer that has loaded a model and draws no frame
LoadSTLAgain ==
    /\ vpc = "run"
    /\ frame = <<>>
    /\ vpc' = "loadSTL"
    /\ LoadFileBegin
    /\ UNCHANGED <<shouldClose, escape, cameraVars, matrixVars, bufferVars,
                   uniforms, frame, scrolls, scrollSum>>
    /\ UNCHANGED processVars

\* the test of the while loop of run()
RunLoopHead ==
    /\ vpc = "run"
    /\ IF shouldClose
       THEN /\ vpc' = "exited"
            /\ exitStatus' = "EXIT_SUCCESS"
            /\ glfw' = glfw \o STLViewerDestructor(axesVAO, axesVBO, modelVAO, modelVBO,
                                                   programID, window)
            /\ UNCHANGED frame
       ELSE vpc' = "processInput" /\ frame' = <<>> /\ UNCHANGED <<exitStatus, glfw>>
    /\ UNCHANGED <<shouldClose, escape, cameraVars, matrixVars, bufferVars,
                   uniforms, scrolls, scrollSum>>
    /\ UNCHANGED <<cmdline, printed, window, glLoaded, drawCall, shaderVars>>
    /\ UNCHANGED loaderVars

\* processInput leaving the loop at once when the escape key is down
ProcessInput_ExitsAtOnce ==
    /\ vpc = "processInput"
    /\ shouldClose' = (shouldClose \/ escape)
    /\ frame' = Append(frame, "processInput")
    /\ vpc' = IF escape THEN "exited" ELSE "clear"
    /\ UNCHANGED <<escape, cameraVars, matrixVars, bufferVars, uniforms, scrolls, scrollSum>>
    /\ UNCHANGED processVars
    /\ UNCHANGED loaderVars

ProcessInput ==
    /\ vpc = "processInput"
    /\ shouldClose' = (shouldClose \/ escape)
    /\ frame' = Append(frame, "processInput")
    /\ vpc' = "clear"
    /\ UNCHANGED <<escape, cameraVars, matrixVars, bufferVars, uniforms, scrolls, scrollSum>>
    /\ UNCHANGED processVars
    /\ UNCHANGED loaderVars

\* render(): glClearColor, glClear
Clear ==
    /\ vpc = "clear"
    /\ frame' = Append(frame, "clear")
    /\ vpc' = "useShader"
    /\ UNCHANGED <<shouldClose, escape, cameraVars, matrixVars, bufferVars,
                   uniforms, scrolls, scrollSum>>
    /\ UNCHANGED processVars
    /\ UNCHANGED loaderVars

\* render(): shader.use()
UseShader ==
    /\ vpc = "useShader"
    /\ frame' = Append(frame, "useShader")
    /\ vpc' = "updateMatrices"
    /\ UNCHANGED <<shouldClose, escape, cameraVars, matrixVars, bufferVars,
                   uniforms, scrolls, scrollSum>>
    /\ UNCHANGED processVars
    /\ UNCHANGED loaderVars

\* render(): updateMatrices()
UpdateMatrices ==
    /\ vpc = "updateMatrices"
    /\ view' = updateViewMatrix(cameraPos, cameraFront, cameraUp)
    /\ projection' = updateProjectionMatrix
    /\ model' = updateModelMatrix(mesh)
    /\ uniforms' = sendMatricesToShader(uniforms, model', view', projection',
                                        lightPos, cameraPos, lightColor)
    /\ uniformLocationCache' = setAll(uniformLocationCache, glsl, programID,
                                       UniformNames, 1)
    /\ frame' = Append(frame, "updateMatrices")
    /\ vpc' = "renderAxes"
    /\ UNCHANGED <<shouldClose, escape, cameraVars, bufferVars, scrolls, scrollSum>>
    /\ UNCHANGED <<mainVars, contextVars, shaderError, programID, glsl, setCall>>
    /\ UNCHANGED loaderVars

\* render(): renderAxes()
RenderAxes ==
    /\ vpc = "renderAxes"
    /\ uniforms' = [uniforms EXCEPT !.model = Identity]
    /\ drawCall' = [mode |-> "GL_LINES", vao |-> axesVAO, first |-> 0,
                    count |-> axesDrawCount, model |-> uniforms'.model]
    /\ frame' = Append(frame, "renderAxes")
    /\ vpc' = "renderModel"
    /\ UNCHANGED <<shouldClose, escape, cameraVars, matrixVars, bufferVars, scrolls, scrollSum>>
    /\ UNCHANGED <<mainVars, window, glLoaded, glfw, shaderVars>>
    /\ UNCHANGED loaderVars

\* renderModel drawing without setting the model uniform
RenderModel_KeepsUniform ==
    /\ vpc = "renderModel"
    /\ drawCall' = [mode |-> "GL_TRIANGLES", vao |-> modelVAO, first |-> 0,
                    count |-> modelDrawCount(mesh), model |-> uniforms.model]
    /\ frame' = Append(frame, "renderModel")
    /\ vpc' = "swapBuffers"
    /\ UNCHANGED <<shouldClose, escape, cameraVars, matrixVars, bufferVars, uniforms,
                   scrolls, scrollSum>>
    /\ UNCHANGED <<mainVars, window, glLoaded, glfw, shaderVars>>
    /\ UNCHANGED loaderVars

\* render(): renderModel()
RenderModel ==
    /\ vpc = "renderModel"
    /\ uniforms' = [uniforms EXCEPT !.model = model]
    /\ drawCall' = [mode |-> "GL_TRIANGLES", vao |-> modelVAO, first |-> 0,
                    count |-> modelDrawCount(mesh), model |-> uniforms'.model]
    /\ frame' = Append(frame, "renderModel")
    /\ vpc' = "swapBuffers"
    /\ UNCHANGED <<shouldClose, escape, cameraVars, matrixVars, bufferVars, scrolls, scrollSum>>
    /\ UNCHANGED <<mainVars, window, glLoaded, glfw, shaderVars>>
    /\ UNCHANGED loaderVars

ScrollBatches(n) == UNION { [1..k -> ScrollOffsets] : k \in 0..n }

\* glfwSwapBuffers letting a pending scroll event reach scroll_callback
SwapBuffers_DeliversScroll ==
    /\ vpc = "swapBuffers"
    /\ frame' = Append(frame, "swapBuffers")
    /\ vpc' = "pollEvents"
    /\ \E ys \in ScrollBatches(IF scrolls < MaxScrolls THEN 1 ELSE 0) :
          /\ cameraPos' = deliverScrolls(ys, 1, cameraPos, cameraFront)
          /\ scrolls' = scrolls + Len(ys)
          /\ scrollSum' = scrollSum + SumSeq(ys, 1)
    /\ UNCHANGED <<shouldClose, escape, cameraFront, cameraUp, lightPos, lightColor,
                   matrixVars, bufferVars, uniforms>>
    /\ UNCHANGED processVars
    /\ UNCHANGED loaderVars

\* glfwSwapBuffers
SwapBuffers ==
    /\ vpc = "swapBuffers"
    /\ frame' = Append(frame, "swapBuffers")
    /\ vpc' = "pollEvents"
    /\ UNCHANGED <<shouldClose, escape, cameraVars, matrixVars, bufferVars,
                   uniforms, scrolls, scrollSum>>
    /\ UNCHANGED processVars
    /\ UNCHANGED loaderVars

\* glfwPollEvents: the pending scroll events reach scroll_callback in order, the
\* key state is refreshed, a close request sets the close flag
PollEvents ==
    /\ vpc = "pollEvents"
    /\ \E ys \in ScrollBatches(MaxScrolls - scrolls), esc \in BOOLEAN, closeRequest \in BOOLEAN :
          /\ cameraPos' = deliverScrolls(ys, 1, cameraPos, cameraFront)
          /\ scrolls' = scrolls + Len(ys)
          /\ scrollSum' = scrollSum + SumSeq(ys, 1)
          /\ escape' = esc
          /\ shouldClose' = (shouldClose \/ closeRequest)
    /\ frame' = Append(frame, "pollEvents")
    /\ vpc' = "run"
    /\ UNCHANGED <<cameraFront, cameraUp, lightPos, lightColor, matrixVars, bufferVars, uniforms>>
    /\ UNCHANGED processVars
    /\ UNCHANGED loaderVars

InitViewerState(pc, win, glad) ==
    /\ vpc = pc
    /\ printed = {}
    /\ exitStatus = "none"
    /\ window = win
    /\ glLoaded = glad
    /\ glfw = (IF win = "open" THEN <<"glfwInit", "glfwCreateWindow">> ELSE <<>>)
    /\ drawCall = NoDraw
    /\ shaderError = ""
    /\ programID = 0
    /\ uniformLocationCache = <<>>
    /\ glsl = NoGLSL
    /\ setCall = NoSet
    /\ shouldClose = FALSE
    /\ escape = FALSE
    /\ \E g \in Garbage :
          /\ mesh = [triangles |-> <<>>,
                     min_bounds |-> <<g, g, g>>, max_bounds |-> <<g, g, g>>,
                     center |-> <<g, g, g>>, scale |-> g]
          /\ cameraPos = SVec(<<g, g, g>>)
          /\ cameraFront = SVec(<<g, g, g>>)
          /\ cameraUp = <<g, g, g>>
          /\ lightPos = <<g, g, g>>
          /\ lightColor = <<g, g, g>>
          /\ model = [c \in Cols |-> [i \in Cols |-> g]]
          /\ view = glmLookAt(SVec(<<g, g, g>>), SVec(<<g, g, g>>), <<g, g, g>>)
          /\ projection = glmPerspective(0, g, g, g)
    /\ axesVAO = 0 /\ axesVBO = 0 /\ modelVAO = 0 /\ modelVBO = 0
    /\ gl = [vao |-> <<>>, vbo |-> <<>>]
    /\ uniforms = [model |-> [c \in Cols |-> [i \in Cols |-> R(0)]],
                   view |-> glmLookAt(SVec(Zero3), SVec(Zero3), Zero3),
                   projection |-> glmPerspective(0, R(0), R(0), R(0)),
                   lightPos |-> Zero3, viewPos |-> SVec(Zero3), lightColor |-> Zero3,
                   ambientStrength |-> R(0), specularStrength |-> R(0), shininess |-> R(0)]
    /\ frame = <<>>
    /\ scrolls = 0
    /\ scrollSum = 0

\* ------------------------------------------------------------ a ModelLoader and its caller
vars == <<loaderVars, viewerVars, processVars>>

InitLoaderVars ==
    /\ errorMessage = ""
    /\ lpc = "idle"
    /\ numMeshes = 0
    /\ meshIdx = 0
    /\ ret = "none"
    /\ loads = 0
    /\ call = NoCall
    /\ passes = 0

\* a viewer that main() is about to construct
InitViewer == InitViewerState("main", "none", FALSE)

\* the program as main() drives it: init, loadSTL, run
Init == InitViewer /\ InitLoaderVars /\ cmdline \in CommandLines

Next ==
    \/ ParseCommandLine
    \/ ValidateSTLFile
    \/ ViewerInit
    \/ LoadSTLBegin
    \/ LoadSTLProcessMesh
    \/ LoadSTLFinishLoad
    \/ LoadSTLSetup
    \/ RunLoopHead
    \/ ProcessInput
    \/ Clear
    \/ UseShader
    \/ UpdateMatrices
    \/ RenderAxes
    \/ RenderModel
    \/ SwapBuffers
    \/ PollEvents

Spec == Init /\ [][Next]_vars

\* a caller that makes loadFile calls on one ModelLoader and one ModelMesh
NextLoader ==
    \/ LoadFileBegin /\ UNCHANGED <<viewerVars, processVars>>
    \/ ProcessMesh /\ UNCHANGED <<viewerVars, processVars>>
    \/ LoadFileFinish /\ UNCHANGED <<viewerVars, processVars>>

NoCommandLine == [args |-> "none", file |-> "missing", ext |-> STL_EXTENSION]

InitLoader == InitViewer /\ InitLoaderVars /\ cmdline = NoCommandLine

SpecLoader == InitLoader /\ [][NextLoader]_vars

\* a caller that holds a viewer whose init() has returned true and calls loadSTL
\* on it, and again after each loadSTL that returned true
InitReload == InitViewerState("inited", "open", TRUE) /\ InitLoaderVars /\ cmdline = NoCommandLine

NextReload ==
    \/ LoadSTLBegin
    \/ LoadSTLProcessMesh
    \/ LoadSTLFinishLoad
    \/ LoadSTLSetup
    \/ LoadSTLAgain

SpecReload == InitReload /\ [][NextReload]_vars

\* ------------------------------------------------------------ normalisation alone
\* calculateBounds followed by calculateCenterAndScale, as loadFile applies them,
\* on a mesh whose triangles are in place and whose other fields hold anything
MaxPasses == 2

Triangles ==
    { processMesh(aiMesh, <<>>).triangles[1] :
        aiMesh \in { m \in AiMeshes : m.mFaces = << <<0, 1, 2>> >> /\ HasPositions(m) } }

TriangleLists == UNION { [1..k -> Triangles] : k \in 0..MaxTriangles }

InitNormalize ==
    /\ \E g \in Garbage, ts \in TriangleLists :
          mesh = [triangles |-> ts,
                  min_bounds |-> <<g, g, g>>, max_bounds |-> <<g, g, g>>,
                  center |-> <<g, g, g>>, scale |-> g]
    /\ errorMessage = ""
    /\ lpc = "processScene"
    /\ numMeshes = 0
    /\ meshIdx = 0
    /\ ret = "none"
    /\ loads = 0
    /\ call = NoCall
    /\ passes = 0
    /\ vpc = "loadSTL"
    /\ shouldClose = FALSE
    /\ escape = FALSE
    /\ cameraPos = SVec(Zero3) /\ cameraFront = SVec(Zero3) /\ cameraUp = Zero3
    /\ lightPos = Zero3 /\ lightColor = Zero3
    /\ model = Identity
    /\ view = glmLookAt(SVec(Zero3), SVec(Zero3), Zero3)
    /\ projection = glmPerspective(0, R(0), R(0), R(0))
    /\ axesVAO = 0 /\ axesVBO = 0 /\ modelVAO = 0 /\ modelVBO = 0
    /\ gl = [vao |-> <<>>, vbo |-> <<>>]
    /\ uniforms = <<>>
    /\ frame = <<>>
    /\ scrolls = 0
    /\ scrollSum = 0
    /\ cmdline = NoCommandLine
    /\ printed = {}
    /\ exitStatus = "none"
    /\ window = "none"
    /\ glLoaded = FALSE
    /\ glfw = <<>>
    /\ drawCall = NoDraw
    /\ shaderError = ""
    /\ programID = 0
    /\ uniformLocationCache = <<>>
    /\ glsl = NoGLSL
    /\ setCall = NoSet

NormalizePass ==
    /\ passes < MaxPasses
    /\ passes' = passes + 1
    /\ mesh' = calculateCenterAndScale(calculateBounds(mesh))
    /\ UNCHANGED <<errorMessage, lpc, numMeshes, meshIdx, ret, loads, call>>
    /\ UNCHANGED viewerVars
    /\ UNCHANGED processVars

SpecNormalize == InitNormalize /\ [][NormalizePass]_vars

\* ------------------------------------------------------------ processMesh alone
\* one processMesh call of processScene on a sub-mesh of up to MaxMeshFaces faces,
\* the sub-mesh kept in call.aiMesh
MaxMeshFaces == 3

LongFaceLists == UNION { [1..k -> FaceChoices] : k \in 0..MaxMeshFaces }

InitProcessMesh ==
    /\ InitViewer
    /\ cmdline = NoCommandLine
    /\ errorMessage = ""
    /\ lpc = "processScene"
    /\ numMeshes = 1
    /\ meshIdx = 0
    /\ ret = "none"
    /\ loads = 1
    /\ call = [NoCall EXCEPT !.parsed = TRUE]
    /\ passes = 0

ProcessMeshRecorded ==
    /\ lpc = "processScene"
    /\ meshIdx < numMeshes
    /\ \E va \in VertexArrays, fs \in LongFaceLists :
         LET aiMesh == [mVertices |-> va.mVertices, mNormals |-> va.mNormals, mFaces |-> fs]
             r == processMesh(aiMesh, mesh.triangles)
         IN  /\ mesh' = [mesh EXCEPT !.triangles = r.triangles]
             /\ call' = [tri0 |-> call.tri0, parsed |-> call.parsed,
                         faces |-> call.faces + Len(aiMesh.mFaces),
                         added |-> call.added + (Len(r.triangles) - Len(mesh.triangles)),
                         steps |-> call.steps, aiMesh |-> aiMesh]
             /\ IF r.ok
                THEN /\ meshIdx' = meshIdx + 1
                     /\ UNCHANGED <<errorMessage, ret, lpc>>
                ELSE /\ errorMessage' = r.err
                     /\ ret' = "false"
                     /\ lpc' = "idle"
                     /\ UNCHANGED meshIdx
    /\ UNCHANGED <<numMeshes, loads, passes>>
    /\ UNCHANGED viewerVars
    /\ UNCHANGED processVars

SpecProcessMesh == InitProcessMesh /\ [][ProcessMeshRecorded]_vars

\* ------------------------------------------------------------ a Shader alone
\* a caller that holds one Shader in a current GL context and calls create and
\* set* on it, move-assigns another Shader to it and moves it away, in any order
MaxShaderOps == 4

\* the second source compiles and links like the first and declares its uniforms
\* in another order
HarnessFiles == {"invalid", "valid", "valid, uniforms in another order"}
SetNames == {"model", "lightPos"}

InitShader ==
    InitViewerState("inited", "open", TRUE) /\ InitLoaderVars /\ cmdline = NoCommandLine

\* shader.create(vertexPath, fragmentPath)
ShaderCreateCall ==
    /\ setCall.ops < MaxShaderOps
    /\ \E vertexFile \in HarnessFiles, fragmentFile \in HarnessFiles, linked \in BOOLEAN :
          LET r == ShaderCreate(vertexFile, fragmentFile, linked, "", programID, glsl)
          IN  /\ shaderError' = r.errorMessage
              /\ programID' = r.programID
              /\ glsl' = r.glsl
              /\ setCall' = [setCall EXCEPT !.ops = @ + 1,
                                            !.lookups = IF r.programID # programID
                                                        THEN <<>> ELSE @]
    /\ UNCHANGED uniformLocationCache
    /\ UNCHANGED <<mainVars, contextVars>>
    /\ UNCHANGED viewerVars
    /\ UNCHANGED loaderVars

\* shader.setMat4(name, value), shader.setVec3(name, value): the location comes
\* from getUniformLocation
ShaderSet ==
    /\ setCall.ops < MaxShaderOps
    /\ \E name \in SetNames :
          LET r == getUniformLocation(uniformLocationCache, glsl, programID, name)
              before == IF name \in DOMAIN setCall.lookups THEN setCall.lookups[name] ELSE 0
          IN  /\ uniformLocationCache' = r.cache
              /\ setCall' = [name |-> name, location |-> r.location,
                             expected |-> glGetUniformLocation(glsl, programID, name),
                             lookups |-> IF r.lookup
                                         THEN (name :> (before + 1)) @@ setCall.lookups
                                         ELSE setCall.lookups,
                             ops |-> setCall.ops + 1]
    /\ UNCHANGED <<shaderError, programID, glsl>>
    /\ UNCHANGED <<mainVars, contextVars>>
    /\ UNCHANGED viewerVars
    /\ UNCHANGED loaderVars

\* shader = std::move(other), other being a default-constructed Shader or a Shader
\* on which create has just returned true: cleanup, then other's members
ShaderMoveAssign ==
    /\ setCall.ops < MaxShaderOps
    /\ LET c == cleanup(programID, glsl)
       IN  \/ /\ programID' = 0
              /\ glsl' = c.glsl
              /\ shaderError' = ""
           \/ \E files \in {"valid", "valid, uniforms in another order"} :
                 LET r == ShaderCreate(files, files, TRUE, "", 0, c.glsl)
                 IN  /\ programID' = r.programID
                     /\ glsl' = r.glsl
                     /\ shaderError' = r.errorMessage
    /\ uniformLocationCache' = <<>>
    /\ setCall' = [setCall EXCEPT !.ops = @ + 1, !.lookups = <<>>]
    /\ UNCHANGED <<mainVars, contextVars>>
    /\ UNCHANGED viewerVars
    /\ UNCHANGED loaderVars

\* Shader other{std::move(shader)}: the program goes to other; the string and the
\* map moved from are left in a valid state the standard does not specify
ShaderMovedFrom ==
    /\ setCall.ops < MaxShaderOps
    /\ programID # 0
    /\ programID' = 0
    /\ shaderError' \in {"", shaderError}
    /\ uniformLocationCache' \in {<<>>, uniformLocationCache}
    /\ setCall' = [setCall EXCEPT !.ops = @ + 1, !.lookups = <<>>]
    /\ UNCHANGED glsl
    /\ UNCHANGED <<mainVars, contextVars>>
    /\ UNCHANGED viewerVars
    /\ UNCHANGED loaderVars

NextShader == ShaderCreateCall \/ ShaderSet \/ ShaderMoveAssign \/ ShaderMovedFrom

SpecShader == InitShader /\ [][NextShader]_vars

\* ============================================================ properties
LessEq(p, q) == RLess(p, q) \/ p = q

\* loadFile has returned true / false and no call is under way
Loaded == lpc = "idle" /\ ret = "true"
Failed == lpc = "idle" /\ ret = "false"

\* the coordinates on axis a of all vertices of all triangles of the mesh
VertexCoords(a) ==
    { mesh.triangles[i].vertices[j][a] :
        i \in 1..Len(mesh.triangles), j \in 1..TRIANGLE_VERTICES }
SetMax(S) == CHOOSE x \in S : \A y \in S : ~RLess(x, y)
SetMin(S) == CHOOSE x \in S : \A y \in S : ~RLess(y, x)
Extent(a) == RSub(SetMax(VertexCoords(a)), SetMin(VertexCoords(a)))
LargestExtent == SetMax({ Extent(a) : a \in Axes })

\* C1: after a successful loadFile on a mesh with at least one triangle, every
\* component of every vertex lies between min_bounds and max_bounds on its axis,
\* and center is the midpoint of min_bounds and max_bounds on each axis.
C1_BoundsAndCenter ==
    (Loaded /\ Len(mesh.triangles) >= 1) =>
        /\ \A a \in Axes : \A v \in VertexCoords(a) :
              LessEq(mesh.min_bounds[a], v) /\ LessEq(v, mesh.max_bounds[a])
        /\ \A a \in Axes :
              RAdd(mesh.center[a], mesh.center[a]) = RAdd(mesh.min_bounds[a], mesh.max_bounds[a])

\* two or more triangles loaded, with a vertex strictly inside the box on some axis
C1_Witness ==
    /\ Loaded
    /\ Len(mesh.triangles) >= 2
    /\ \E a \in Axes : \E v \in VertexCoords(a) :
          RLess(mesh.min_bounds[a], v) /\ RLess(v, mesh.max_bounds[a])

\* C2: after normalisation scale > 0; scale is 1 when the largest extent of the
\* vertices does not exceed EPSILON and 1/(largest extent) otherwise; a mesh that
\* spans exactly [0,1]^3 gets center (1/2, 1/2, 1/2) and scale 1.
C2_Scale ==
    Loaded =>
        /\ RLess(R(0), mesh.scale)
        /\ IF RLess(EPSILON, LargestExtent)
           THEN RMul(mesh.scale, LargestExtent) = R(1)
           ELSE mesh.scale = R(1)
        /\ (\A a \in Axes : SetMin(VertexCoords(a)) = R(0) /\ SetMax(VertexCoords(a)) = R(1))
              => mesh.center = <<Half, Half, Half>> /\ mesh.scale = R(1)

\* a loaded mesh whose largest extent is positive and does not exceed EPSILON
C2_Witness ==
    /\ Loaded
    /\ RLess(R(0), LargestExtent)
    /\ LessEq(LargestExtent, EPSILON)
    /\ mesh.scale = R(1)

\* C3: a normalisation pass on a mesh that has been normalised already, its
\* triangle list unchanged, leaves min_bounds, max_bounds, center and scale as
\* they are, whatever the fields held before the first pass.
C3_Idempotent == [][passes >= 1 => mesh' = mesh]_vars

\* a second pass made on a mesh of two or more triangles
C3_Witness == passes = 2 /\ Len(mesh.triangles) >= 2

NoMeshDataError ==
    setError("No mesh data found in the file", "File might be empty or corrupted")
NoFaceDataError ==
    setError("Mesh does not contain face data",
             "Mesh index: " \o ToString(Len(mesh.triangles) \div 1000))

\* loadFile has returned on a parsed scene in which it met no face
ZeroFaces == lpc = "idle" /\ ret # "none" /\ call.parsed /\ call.faces = 0

\* C4 as stated: a parsed file with zero faces (no sub-mesh, or one sub-mesh
\* without faces) makes loadFile return false with the "no mesh data" error.
C4_AsStated ==
    (ZeroFaces /\ numMeshes <= 1) => (ret = "false" /\ errorMessage = NoMeshDataError)

\* C4: a parsed file in which loadFile meets no face makes it return false and
\* add no triangle; the error is "No mesh data found in the file" when the scene
\* has no sub-mesh and "Mesh does not contain face data" when its first sub-mesh
\* has no face.
C4_ZeroFacesFail ==
    ZeroFaces =>
        /\ ret = "false"
        /\ call.added = 0
        /\ errorMessage = IF numMeshes = 0 THEN NoMeshDataError ELSE NoFaceDataError

\* a load that failed on a sub-mesh without faces
C4_Witness == ZeroFaces /\ numMeshes >= 1 /\ ret = "false"

InvalidIndexErrors ==
    { setError("Invalid vertex index in face data", "Index: " \o ToString(i)) : i \in 0..3 }

\* C5: when loadFile fails with the invalid-index error the caller's mesh holds
\* none of the triangles of the faces processed before the bad face.
C5_NoPartialMesh ==
    (Failed /\ errorMessage \in InvalidIndexErrors) => Len(mesh.triangles) = call.tri0


\* ------------------------------------------------------------ properties of the viewer
\* loadSTL has succeeded: buffers and camera are set up, run() is in progress or over
Running == vpc \notin {"main", "validate", "start", "inited", "loadSTL", "failed"}

\* a + b*sqrt(3) < 0
SurdNegative(s) ==
    LET a == s[1]
        b == s[2]
        a2 == RMul(a, a)
        b2 == RMul(R(3), RMul(b, b))
    IN  IF LessEq(a, R(0)) /\ LessEq(b, R(0)) THEN a # R(0) \/ b # R(0)
        ELSE IF LessEq(R(0), a) /\ LessEq(R(0), b) THEN FALSE
        ELSE IF RLess(R(0), a) THEN RLess(a2, b2)
        ELSE RLess(b2, a2)

\* C6: the model buffer holds 9*3*N floats; the 9 floats of corner j of triangle i,
\* from offset 9*(3*i+j), are the corner's position, the colour (0.8, 0.8, 0.8) and
\* the normal of triangle i; a single triangle gives 27 floats whose [6:9), [15:18)
\* and [24:27) are its normal
C6_VertexLayout ==
    Running =>
        LET buf == gl.vbo[modelVBO]
            N == Len(mesh.triangles)
            colour == Surd(Rat(4, 5))
        IN  /\ Len(buf) = 9 * 3 * N
            /\ \A i \in 0..(N - 1), j \in 0..2 :
                  LET o == 9 * (3 * i + j)
                      t == mesh.triangles[i + 1]
                  IN  /\ <<buf[o + 1], buf[o + 2], buf[o + 3]>> = SVec(t.vertices[j + 1])
                      /\ <<buf[o + 4], buf[o + 5], buf[o + 6]>> = <<colour, colour, colour>>
                      /\ <<buf[o + 7], buf[o + 8], buf[o + 9]>> = t.normal
            /\ N = 1 =>
                  /\ Len(buf) = 27
                  /\ SubSeq(buf, 7, 9) = mesh.triangles[1].normal
                  /\ SubSeq(buf, 16, 18) = mesh.triangles[1].normal
                  /\ SubSeq(buf, 25, 27) = mesh.triangles[1].normal

C6_Witness ==
    /\ Running
    /\ Len(mesh.triangles) >= 2
    /\ mesh.triangles[1].normal # mesh.triangles[2].normal
    /\ Len(gl.vbo[modelVBO]) = 9 * 3 * Len(mesh.triangles)

\* C7: after scroll events y1..yn, cameraPos = (8,8,8) + cameraFront * 0.3 * (y1+...+yn),
\* cameraFront being the unit vector from (8,8,8) to the origin throughout; nothing
\* stops the camera at the origin
C7_ScrollLinear ==
    Running =>
        /\ cameraFront = <<<<R(0), Rat(-1, 3)>>, <<R(0), Rat(-1, 3)>>, <<R(0), Rat(-1, 3)>>>>
        /\ cameraPos = SVAdd(SVec(<<R(8), R(8), R(8)>>),
                             SVScale(cameraFront, RMul(Rat(3, 10), R(scrollSum))))

C7_Witness ==
    /\ Running
    /\ scrolls = 2
    /\ scrollSum = 100
    /\ \A a \in Axes : SurdNegative(cameraPos[a])

\* the matrices of the current frame have been computed
MatricesUpdated == vpc \in {"renderAxes", "renderModel", "swapBuffers", "pollEvents"}

\* C8: the model matrix of a frame maps every vertex v of the mesh to
\* (v - mesh.center) * mesh.scale
C8_ModelMatrix ==
    MatricesUpdated =>
        \A i \in 1..Len(mesh.triangles), j \in 1..3 :
            LET v == mesh.triangles[i].vertices[j]
            IN  MatApply(model, v) = VScale(VSub(v, mesh.center), mesh.scale)

\* the uniforms a frame pushes, with mo as the model matrix
FrameUniforms(mo) ==
    [model |-> mo,
     view |-> [eye |-> cameraPos, center |-> SVAdd(cameraPos, cameraFront), up |-> cameraUp],
     projection |-> [fovy |-> 45, aspect |-> Rat(4, 3), near |-> Rat(1, 10), far |-> R(100)],
     lightPos |-> lightPos, viewPos |-> cameraPos, lightColor |-> lightColor,
     ambientStrength |-> Rat(1, 10), specularStrength |-> Rat(1, 2), shininess |-> R(32)]

IsFrameStep(s) == \E k \in 1..Len(FullFrame) : FullFrame[k] = s
StepIndex(s) == CHOOSE k \in 1..Len(FullFrame) : FullFrame[k] = s

\* C9: the steps of an iteration are made in the order processInput, clear, useShader,
\* updateMatrices, renderAxes, renderModel, swapBuffers, pollEvents, none left out;
\* each draw is made with the uniforms that this frame has pushed
C9_FrameOrder ==
    /\ IsFrameStep(vpc) => frame = SubSeq(FullFrame, 1, StepIndex(vpc) - 1)
    /\ vpc \in {"run", "exited"} => frame \in {<<>>, FullFrame}
    /\ vpc = "renderAxes" => uniforms = FrameUniforms(updateModelMatrix(mesh))
    /\ vpc = "renderModel" => uniforms = FrameUniforms(Identity)
    /\ vpc = "swapBuffers" => uniforms = FrameUniforms(updateModelMatrix(mesh))

C9_Witness ==
    /\ vpc = "swapBuffers"
    /\ scrollSum # 0
    /\ frame = SubSeq(FullFrame, 1, 6)
    /\ uniforms.viewPos = cameraPos

\* C10: run() ends only from the test at the head of the loop, with the close flag
\* set; a step of a frame is always followed by the next step of the frame, so the
\* frame in which processInput sees the escape key is drawn, swapped and polled;
\* the close flag is set by processInput on the escape key or by a close request and
\* is never cleared
C10_ExitOnlyAtLoopHead ==
    [][ /\ (vpc' = "exited" /\ vpc # "exited") => (vpc = "run" /\ shouldClose)
        /\ (vpc = "run" /\ shouldClose) => vpc' = "exited"
        /\ IsFrameStep(vpc) =>
              vpc' = (IF vpc = "pollEvents" THEN "run" ELSE FullFrame[StepIndex(vpc) + 1])
        /\ (vpc = "processInput" /\ escape) => shouldClose'
        /\ (shouldClose' /\ ~shouldClose) => vpc \in {"processInput", "pollEvents"}
        /\ shouldClose => shouldClose'
        /\ vpc = "exited" => vpc' = "exited" ]_vars

C10_Witness ==
    /\ vpc = "pollEvents"
    /\ shouldClose
    /\ escape
    /\ frame = SubSeq(FullFrame, 1, 7)


\* ------------------------------------------------------------ properties of setup and reload
\* C11: the loop of run() is reached only when init() and loadSTL() have both
\* returned true (window open, GL loaded, mesh imported, shader program created,
\* both buffer pairs made); a failure of any of them ends main with a non-zero
\* status, with no frame drawn and no second attempt at loading
C11_LoopOnlyAfterSetup ==
    /\ Running =>
          /\ window = "open" /\ glLoaded
          /\ Loaded /\ Len(mesh.triangles) >= 1
          /\ shaderError = "" /\ programID # 0
          /\ axesVAO # 0 /\ axesVBO # 0 /\ modelVAO # 0 /\ modelVBO # 0
          /\ {axesVAO, modelVAO} \subseteq DOMAIN gl.vao
          /\ {axesVBO, modelVBO} \subseteq DOMAIN gl.vbo
    /\ vpc = "failed" =>
          /\ exitStatus \in {"EXIT_FAILURE", "terminate"}
          /\ frame = <<>>
    /\ exitStatus = "EXIT_SUCCESS" => vpc = "exited"
    /\ (exitStatus # "none") = (vpc \in {"failed", "exited"})
    /\ loads <= 1

\* main has ended in failure on a shader that could not be created, after the
\* mesh was imported
C11_Witness ==
    /\ vpc = "failed"
    /\ Loaded
    /\ programID # 0
    /\ shaderError # ""
    /\ exitStatus = "EXIT_FAILURE"

\* C12: at every point of a sequence of loadSTL calls the live vertex arrays and
\* buffers are at most one pair for the model and one pair for the axes: those the
\* viewer holds the names of
C12_OneLiveBufferSet ==
    /\ DOMAIN gl.vao \subseteq {axesVAO, modelVAO}
    /\ DOMAIN gl.vbo \subseteq {axesVBO, modelVBO}

\* C13: loadFile returns true only if the file of this call gave at least one triangle
C13_NoEmptyFileSucceeds ==
    Loaded => call.added >= 1

\* C14: for a mesh whose largest extent is 0 or below EPSILON the model matrix of
\* a frame scales by 1.0 and holds only finite numbers
C14_DegenerateScale ==
    (MatricesUpdated /\ LessEq(LargestExtent, EPSILON)) =>
        /\ \A c \in Cols, i \in Cols : IsFinite(model[c][i])
        /\ \A a \in Axes : model[a][a] = R(1)

\* setupShaders has failed: loadFile returned true and main ended in failure
ShaderCreateFailed == vpc = "failed" /\ Loaded

\* C15: when Shader::create returns false the shader's error message is not empty,
\* it is part of what loadSTL logs, and main ends in failure
C15_ShaderErrorReported ==
    ShaderCreateFailed =>
        /\ shaderError # ""
        /\ ("Failed to create shader: " \o shaderError) \in printed
        /\ exitStatus = "EXIT_FAILURE"

\* the messages setError can leave, each a reason followed by a detail
LoaderErrors ==
    { setError("Failed to load 3D model", e) : e \in BackendErrors }
    \cup { NoMeshDataError,
           setError("No triangle data could be extracted from the file",
                    "Model might contain only points/lines or unsupported geometry") }
    \cup { setError(m, "Mesh index: 0") :
             m \in {"Mesh does not contain face data",
                    "Mesh does not contain vertex position data"} }
    \cup InvalidIndexErrors

\* C16: after each loadFile call the error message is one of the loader's messages
\* when the call returned false and empty when it returned true; it is empty while
\* a call is under way
C16_ErrorIffFailed ==
    /\ Failed => (errorMessage # "" /\ errorMessage \in LoaderErrors)
    /\ Loaded => errorMessage = ""
    /\ lpc = "processScene" => errorMessage = ""

\* a second call that succeeds after a first call that failed
C16_Witness ==
    /\ loads = 2
    /\ Loaded
    /\ call.tri0 = 0
    /\ errorMessage = ""

\* ------------------------------------------------------------ properties of the command line
\* no path argument, or a path that names no file or an empty file
InvalidPath ==
    \/ cmdline.args = "none"
    \/ cmdline.args = "path" /\ cmdline.file \in {"missing", "empty"}

\* main is past parseCommandLine and validateSTLFile
Validated == vpc \notin {"main", "validate"}

\* C17 as stated: a missing or invalid path ends the program with a non-zero
\* status and the usage message, the viewer never initialised
C17_AsStated ==
    (InvalidPath /\ Validated) =>
        /\ vpc = "failed" /\ exitStatus = "EXIT_FAILURE"
        /\ "Usage" \in printed
        /\ window = "none" /\ loads = 0

\* C17: a missing or invalid path ends the program with EXIT_FAILURE and the
\* viewer never initialised; the usage message is printed when the path argument
\* is missing, while a path that names no file or an empty file gets the error
\* message of that case and no usage; a regular file with a wrong extension gets
\* a warning only and passes validation
C17_InvalidPathExits ==
    /\ (InvalidPath /\ Validated) =>
          /\ vpc = "failed" /\ exitStatus = "EXIT_FAILURE"
          /\ window = "none" /\ loads = 0
          /\ ("Usage" \in printed) = (cmdline.args = "none")
          /\ cmdline.args = "none" => "Error: STL file path is required." \in printed
          /\ (cmdline.args = "path" /\ cmdline.file = "missing") =>
                {"Error: STL file does not exist", "Error: Failed to validate STL file"}
                    \subseteq printed
          /\ (cmdline.args = "path" /\ cmdline.file = "empty") =>
                {"Error: STL file is empty", "Error: Failed to validate STL file"}
                    \subseteq printed
    /\ (cmdline.args = "path" /\ cmdline.file = "regular" /\ Validated) =>
          /\ "Error: Failed to validate STL file" \notin printed
          /\ "Usage" \notin printed
          /\ ("Warning: File does not have .stl extension" \in printed)
                = (cmdline.ext # ".stl")
    /\ (cmdline.args = "path" /\ cmdline.file = "regular" /\ vpc = "start") =>
          exitStatus = "none"

\* main has ended on a path that names no file, without the usage message
C17_Witness ==
    /\ vpc = "failed"
    /\ cmdline.args = "path"
    /\ cmdline.file = "missing"
    /\ "Error: STL file does not exist" \in printed
    /\ "Usage" \notin printed

\* the floats of one axis segment: two vertices of 9 floats, from the origin to tip
SegmentPositions(buf, k) ==
    <<SubSeq(buf, 18 * k + 1, 18 * k + 3), SubSeq(buf, 18 * k + 10, 18 * k + 12)>>
SegmentColours(buf, k) ==
    <<SubSeq(buf, 18 * k + 4, 18 * k + 6), SubSeq(buf, 18 * k + 13, 18 * k + 15)>>
Floats(v) == <<Surd(R(v[1])), Surd(R(v[2])), Surd(R(v[3]))>>
UnitVector(k) == [a \in Axes |-> IF a = k + 1 THEN 1 ELSE 0]

\* C18 as stated: the axes buffer is three segments from the origin to the point
\* at distance 1 on +X, +Y, +Z, coloured red, green, blue
C18_AsStated ==
    Running =>
        LET buf == gl.vbo[axesVBO]
        IN  /\ Len(buf) = 3 * 2 * 9
            /\ \A k \in 0..2 :
                  /\ SegmentPositions(buf, k) = <<Floats(<<0, 0, 0>>), Floats(UnitVector(k))>>
                  /\ SegmentColours(buf, k) = <<Floats(UnitVector(k)), Floats(UnitVector(k))>>

\* C18: the axes buffer is three segments from the origin to the point at
\* distance 2 (AXIS_LENGTH) on +X, +Y, +Z, coloured red, green, blue, whatever
\* mesh is loaded
C18_AxesBuffer ==
    Running =>
        LET buf == gl.vbo[axesVBO]
        IN  /\ Len(buf) = 3 * 2 * 9
            /\ \A k \in 0..2 :
                  /\ SegmentPositions(buf, k) =
                        <<Floats(<<0, 0, 0>>), Floats([a \in Axes |-> 2 * UnitVector(k)[a]])>>
                  /\ SegmentColours(buf, k) = <<Floats(UnitVector(k)), Floats(UnitVector(k))>>

C18_Witness ==
    /\ Running
    /\ Len(mesh.triangles) >= 2
    /\ axesVBO \in DOMAIN gl.vbo
    /\ gl.vbo[axesVBO][10] = Surd(R(2))

\* ------------------------------------------------------------ properties of the loaded mesh
\* the mesh with its triangles taken in the order f
Reordered(f) == [mesh EXCEPT !.triangles = [k \in 1..Len(mesh.triangles) |-> mesh.triangles[f[k]]]]

\* C19: after a successful load, on each axis min_bounds is the least and
\* max_bounds the greatest coordinate over all vertices of all triangles, each
\* the coordinate of some vertex, and calculateBounds gives the same box for
\* every order of the triangles
C19_TightBounds ==
    (Loaded /\ Len(mesh.triangles) >= 1) =>
        /\ \A a \in Axes :
              /\ mesh.min_bounds[a] = SetMin(VertexCoords(a))
              /\ mesh.max_bounds[a] = SetMax(VertexCoords(a))
              /\ {mesh.min_bounds[a], mesh.max_bounds[a]} \subseteq VertexCoords(a)
        /\ \A f \in Permutations(1..Len(mesh.triangles)) :
              LET b == calculateBounds(Reordered(f))
              IN  b.min_bounds = mesh.min_bounds /\ b.max_bounds = mesh.max_bounds

\* a loaded mesh whose box is attained by no single triangle and lies off the origin
C19_Witness ==
    /\ Loaded
    /\ Len(mesh.triangles) >= 2
    /\ \E a \in Axes : RLess(R(0), mesh.min_bounds[a])
    /\ \A i \in 1..Len(mesh.triangles) :
          \E a \in Axes :
             \/ \A j \in 1..3 : mesh.triangles[i].vertices[j][a] # mesh.min_bounds[a]
             \/ \A j \in 1..3 : mesh.triangles[i].vertices[j][a] # mesh.max_bounds[a]

\* C20: after a successful loadFile the mesh holds the triangles of the file of
\* that call and no other
C20_ReloadReplaces ==
    Loaded => Len(mesh.triangles) = call.added

\* ------------------------------------------------------------ C21
ThreeIndexFaces(aiMesh) == SelectSeq(aiMesh.mFaces, LAMBDA f : Len(f) = TRIANGLE_VERTICES)

ValidIndices(aiMesh) ==
    \A i \in 1..Len(aiMesh.mFaces) :
       \A j \in 1..Len(aiMesh.mFaces[i]) : aiMesh.mFaces[i][j] < mNumVertices(aiMesh)

\* C21: a face whose index count is not 3 is skipped without error.  After
\* processMesh on a sub-mesh that has faces and positions and no index past its
\* vertex array, no error is set, processScene goes on, and the mesh holds one
\* triangle for each 3-index face of the sub-mesh, in the order of the faces,
\* whatever other faces stand before, between or after them.
C21_NonTriangleSkipped ==
    ("aiMesh" \in DOMAIN call) =>
        LET a == call.aiMesh
            good == ThreeIndexFaces(a)
        IN  (HasFaces(a) /\ HasPositions(a) /\ ValidIndices(a)) =>
               /\ errorMessage = ""
               /\ ret = "none"
               /\ lpc = "processScene"
               /\ meshIdx = 1
               /\ call.added = Len(good)
               /\ Len(mesh.triangles) = call.tri0 + Len(good)
               /\ \A k \in 1..Len(good) :
                     mesh.triangles[call.tri0 + k].vertices =
                        [j \in 1..TRIANGLE_VERTICES |-> a.mVertices[good[k][j] + 1]]

\* a line between two triangles: both triangles are in the mesh
C21_Witness ==
    /\ "aiMesh" \in DOMAIN call
    /\ call.aiMesh.mFaces = << <<0, 1, 2>>, <<0, 1>>, <<0, 1, 2>> >>
    /\ Len(mesh.triangles) = 2
    /\ errorMessage = ""
    /\ meshIdx = 1
\* ------------------------------------------------------------ C22
\* C22: once the loop runs, the camera position changes in no step but the
\* glfwPollEvents that ends a frame; updateMatrices builds the view matrix from the
\* position the last poll left, and from updateMatrices to the poll the view
\* matrix, the view uniform and the viewPos uniform all hold that one position.
C22_ScrollOnlyInPoll ==
    [][ /\ (Running /\ cameraPos' # cameraPos) => (vpc = "pollEvents" /\ vpc' = "run")
        /\ (vpc = "updateMatrices") => (view'.eye = cameraPos /\ cameraPos' = cameraPos)
        /\ MatricesUpdated' =>
              /\ view'.eye = cameraPos'
              /\ uniforms'.view = view'
              /\ uniforms'.viewPos = cameraPos' ]_vars

\* the frame after a poll that delivered one scroll of -1: its view matrix looks
\* from the moved camera
C22_Witness ==
    /\ vpc = "renderAxes"
    /\ scrolls = 1
    /\ scrollSum = -1
    /\ view.eye = cameraPos
    /\ view.eye # SVec(<<R(CAMERA_DISTANCE), R(CAMERA_DISTANCE), R(CAMERA_DISTANCE)>>)
    /\ uniforms.viewPos = view.eye
\* ------------------------------------------------------------ C23
\* C23: once setupCamera has run, no step changes the camera forward vector, the
\* camera up vector, the light position, the light colour or the mesh; the camera
\* position changes only in a step that delivers scroll events, and not at all
\* when every event delivered has yoffset = 0.
C23_OnlyCameraPosMoves ==
    [][ Running =>
          /\ cameraFront' = cameraFront
          /\ cameraUp' = cameraUp
          /\ lightPos' = lightPos
          /\ lightColor' = lightColor
          /\ mesh' = mesh
          /\ (scrolls' = scrolls) => (cameraPos' = cameraPos)
          /\ (scrollSum' = scrollSum) => (cameraPos' = cameraPos) ]_vars

\* two horizontal scrolls have been delivered and the camera stands where
\* setupCamera put it
C23_Witness ==
    /\ Running
    /\ scrolls = 2
    /\ scrollSum = 0
    /\ frame = FullFrame
    /\ cameraPos = SVec(<<R(CAMERA_DISTANCE), R(CAMERA_DISTANCE), R(CAMERA_DISTANCE)>>)
\* ------------------------------------------------------------ C24
\* the steps of loadSTL, loadFile within it, in the order of their statements
Pipeline ==
    <<"ReadFile", "validateScene", "processScene", "validateProcessedMesh",
      "calculateBounds", "calculateCenterAndScale",
      "setupShaders", "setupAxesBuffers", "setupModelBuffers", "setupCamera">>

IsPrefix(s, t) == Len(s) <= Len(t) /\ s = SubSeq(t, 1, Len(s))
Entered(step) == \E k \in 1..Len(call.steps) : call.steps[k] = step
Unset(v) == \E g \in Garbage : v = <<g, g, g>>

C25_CacheMatchesProgram ==
    /\ (setCall.name # "") => (setCall.location = setCall.expected)
    /\ \A name \in DOMAIN setCall.lookups : setCall.lookups[name] <= 1
    /\ \A name \in DOMAIN uniformLocationCache :
          uniformLocationCache[name] = glGetUniformLocation(glsl, programID, name)
\* ------------------------------------------------------------ C26
\* Shader::isValid
isValid == programID # 0

\* C26: when Shader::create has returned false, no shader object and no program
\* object that the call created is alive, and isValid() is false
C26_FailedCreateReleases ==
    ShaderCreateFailed =>
        /\ glsl.shaders = {}
        /\ DOMAIN glsl.programs = {}
        /\ ~isValid
\* ------------------------------------------------------------ C27
\* C27: every glDrawArrays of the loop is made with a vertex array that exists
\* (handle not 0) bound to a buffer that is not empty, and reads only floats of
\* that buffer with the 9-float stride: the mesh draw asks for 3 vertices per
\* triangle of a buffer of 9 * 3 floats per triangle, with at least one triangle;
\* the axes draw asks for 6 vertices of a buffer of 6 * 9 floats
C27_DrawsInsideBuffers ==
    (drawCall.mode # "none") =>
        /\ drawCall.vao # 0
        /\ drawCall.vao \in DOMAIN gl.vao
        /\ gl.vao[drawCall.vao] # 0
        /\ setupVertexAttributes.stride = 9
        /\ LET buf == gl.vbo[gl.vao[drawCall.vao]]
           IN  /\ Len(buf) > 0
               /\ drawCall.count > 0
               /\ FloatsRead(drawCall.first, drawCall.count) \subseteq 1..Len(buf)
               /\ (drawCall.mode = "GL_TRIANGLES") =>
                     /\ drawCall.vao = modelVAO
                     /\ Len(mesh.triangles) >= 1
                     /\ drawCall.count = 3 * Len(mesh.triangles)
                     /\ Len(buf) = 9 * 3 * Len(mesh.triangles)
               /\ (drawCall.mode = "GL_LINES") =>
                     /\ drawCall.vao = axesVAO
                     /\ drawCall.count = 6
                     /\ Len(buf) = 6 * 9

\* the mesh of three triangles has just been drawn
C27_Witness ==
    /\ vpc = "swapBuffers"
    /\ drawCall.mode = "GL_TRIANGLES"
    /\ Len(mesh.triangles) = 3
    /\ drawCall.count = 9
    /\ Len(gl.vbo[modelVBO]) = 81

\* ------------------------------------------------------------ C29
\* C29: in every frame the axes are drawn with the identity as model uniform and
\* the mesh with the model matrix that updateMatrices computed in that frame
C29_ModelUniformPerDraw ==
    /\ (drawCall.mode = "GL_LINES") => (drawCall.model = Identity)
    /\ (drawCall.mode = "GL_TRIANGLES") =>
          /\ drawCall.model = model
          /\ (vpc = "swapBuffers") => (drawCall.model = updateModelMatrix(mesh))
    /\ (vpc = "renderModel") => (drawCall.mode = "GL_LINES" /\ uniforms.model = Identity)
    /\ (vpc \in {"swapBuffers", "pollEvents"}) =>
          (drawCall.mode = "GL_TRIANGLES" /\ uniforms.model = drawCall.model)

\* the mesh draw of a frame after the first, with a model matrix that is not
\* the identity the axes draw of the same frame used
C29_Witness ==
    /\ vpc = "swapBuffers"
    /\ scrolls >= 1
    /\ drawCall.mode = "GL_TRIANGLES"
    /\ drawCall.model # Identity
    /\ IsFinite(drawCall.model[1][1])
\* ------------------------------------------------------------ C28
Count(log, e) == Cardinality({ k \in 1..Len(log) : log[k] = e })

Releases ==
    {"glDeleteVertexArrays axes", "glDeleteBuffers axes", "glDeleteVertexArrays model",
     "glDeleteBuffers model", "glDeleteProgram", "glfwDestroyWindow"}

\* C28: when the process has ended, every resource the viewer held (the vertex
\* arrays and buffers, the shader program, the window) has been released, every
\* release comes before any glfwTerminate, and glfwTerminate has been called once
\* for each glfwInit that succeeded and not at all without one
C28_ReleaseBeforeTerminate ==
    /\ \A k \in 1..Len(glfw), l \in 1..Len(glfw) :
          (glfw[k] = "glfwTerminate" /\ glfw[l] \in Releases) => l < k
    /\ Count(glfw, "glfwTerminate") <= Count(glfw, "glfwInit")
    /\ (exitStatus # "none") =>
          /\ Count(glfw, "glfwTerminate") = Count(glfw, "glfwInit")
          /\ (window = "open") => Count(glfw, "glfwDestroyWindow") = 1
          /\ (programID # 0) => Count(glfw, "glDeleteProgram") = 1
          /\ (axesVAO # 0) => Count(glfw, "glDeleteVertexArrays axes") = 1
          /\ (axesVBO # 0) => Count(glfw, "glDeleteBuffers axes") = 1
          /\ (modelVAO # 0) => Count(glfw, "glDeleteVertexArrays model") = 1
          /\ (modelVBO # 0) => Count(glfw, "glDeleteBuffers model") = 1
====
